---- MODULE Spec2Model ----
(***************************************************************************)
(* A model of the chat application's realtime fan-out and read-tracking    *)
(* subsystem: the Postgres schema, triggers, policies and entrypoints of    *)
(* supabase/migrations, the accessors of src/db and the subscription hook   *)
(* of src/hooks/useSubscribeToConversations.ts.                             *)
(*                                                                          *)
(* Database calls run as Postgres runs them: a single statement sent by a   *)
(* client is one transaction (the statement and its row triggers are one    *)
(* step); an entrypoint (RPC function) is one transaction of several        *)
(* statements, whose writes and broadcasts become visible to others only at *)
(* commit and vanish on an exception (READ COMMITTED). The statements of    *)
(* the deletion entrypoint are steps of their own, interleaved with the     *)
(* other calls.                                                             *)
(***************************************************************************)
EXTENDS Integers, Sequences, FiniteSets, TLC

\* ---------------------------------------------------------------- bounds
\* rows created in a run: conversations and messages together
MaxRows == 2
\* entrypoint transactions in flight at once
MaxTx == 2
\* broadcasts waiting in a session's channel
MaxInbox == 2
\* subscribe() calls on one channel
MaxJoins == 2
\* messages one page sends
MaxSends == 2
\* runs of the mark-as-read effect of one page
MaxMarks == 5

\* ---------------------------------------------------------------- values
\* profiles rows: the users that exist
Users == {"u1", "u2", "u3"}
\* a well-formed id that names no profile
Ghost == "ghost"
\* auth.uid() of a caller with no identity (service role, anonymous key)
NullUid == "NULL"
Callers == Users \cup {NullUid}
\* SQL NULL of a timestamp column, and of an integer expression
NullTs == 0
NullInt == -1
\* SQL NULL of a row variable (NEW on DELETE, OLD on INSERT)
NoRow == [null |-> TRUE]
\* a fixed enumeration order of the users (a SELECT without ORDER BY)
UserOrder == <<"u1", "u2", "u3">>

\* a uuid[] argument: SQL NULL or an array
NullArray == [null |-> TRUE, elems |-> <<>>]
Arr(s) == [null |-> FALSE, elems |-> s]
CreateArgs ==
  { NullArray, Arr(<<>>), Arr(<<"u1">>), Arr(<<"u1", "u2">>), Arr(<<"u2", "u3">>),
    Arr(<<"u1", "u2", "u3">>), Arr(<<"u1", Ghost>>), Arr(<<"u1", "u1">>) }

VARIABLES
  now,            \* the database clock, NOW()
  conversations,  \* committed rows of table conversations
  participants,   \* committed rows of table conversation_participants
  messages,       \* committed rows of table messages
  nextMsg,        \* next fresh message id (gen_random_uuid)
  nextConv,       \* next fresh conversation id (gen_random_uuid)
  realtime,       \* the rows the last finished call committed to realtime.messages, in order
  tx,             \* the entrypoint transactions in flight
  result,         \* what the last finished call returned to its caller
  sessions        \* the browser sessions: their realtime channel and query cache

vars ==
  <<now, conversations, participants, messages, nextMsg, nextConv, realtime, tx, result,
    sessions>>

\* ---------------------------------------------------------------- schema
ConversationRow(id, t) == [id |-> id, created_at |-> t, updated_at |-> t]
ParticipantRow(c, u, t) ==
  [conversation_id |-> c, user_id |-> u, last_read_at |-> t, joined_at |-> t]
MessageRow(id, c, s, t) ==
  [id |-> id, conversation_id |-> c, sender_id |-> s, created_at |-> t,
   deleted_at |-> NullTs, edited |-> FALSE, reply_to_id |-> NullInt]

\* REFERENCES profiles(id)
ProfileExists(u) == u \in Users
\* REFERENCES conversations(id), against the rows `convs`
ConversationExists(convs, c) == \E r \in convs : r.id = c
\* a table without the UNIQUE constraint
BadUniqueNever(parts, c, u) == FALSE

\* UNIQUE(conversation_id, user_id), against the rows `parts`
UniqueViolation(parts, c, u) == \E p \in parts : p.conversation_id = c /\ p.user_id = u

\* a membership check that ignores the user: true when the conversation has any
\* participant
BadIsParticipantAnyUser(parts, conversation_id, user_id) ==
  \E p \in parts : p.conversation_id = conversation_id

\* ------------------------------------------------------ membership resolver
is_conversation_participant(parts, conversation_id, user_id) ==
  \E p \in parts : p.conversation_id = conversation_id /\ p.user_id = user_id

participantsOf(parts, c) == { p.user_id : p \in { q \in parts : q.conversation_id = c } }

\* ---------------------------------------------------------------- broadcast
Topic(u) == <<"user", u>>

\* realtime.broadcast_changes(topic, event, operation, table, schema, new, old, level)
broadcast_changes(topic, op, table, new, old) ==
  [topic |-> topic, event |-> op, table |-> table, record |-> new, old_record |-> old]

Coalesce(new, old) == IF new = NoRow THEN old ELSE new

BadBroadcastNothing(op, new, old) == <<>>
BadBroadcastToFirstUser(op, new, old) ==
  << broadcast_changes(Topic(UserOrder[1]), op, "conversation_participants", new, old) >>
\* the row an event is about
EventRow(e) == Coalesce(e.record, e.old_record)

\* the row trigger of conversation_participants: one broadcast, to the row's own user
broadcast_conversation_participant_changes(op, new, old) ==
  << broadcast_changes(Topic(Coalesce(new, old).user_id), op,
                       "conversation_participants", new, old) >>

RECURSIVE FanOut(_, _, _, _, _)
FanOut(i, recipients, op, new, old) ==
  IF i > Len(UserOrder) THEN <<>>
  ELSE (IF UserOrder[i] \in recipients
          THEN << broadcast_changes(Topic(UserOrder[i]), op, "messages", new, old) >>
          ELSE <<>>)
       \o FanOut(i + 1, recipients, op, new, old)

BadRecipientsEveryUser(parts, c) == Users
BadRecipientsNone(parts, c) == {}
\* FOR participant_record IN SELECT user_id ... WHERE conversation_id = COALESCE(..)
MessageRecipients(parts, c) == participantsOf(parts, c)

\* the row trigger of messages: one broadcast per participant row of the conversation
broadcast_message_changes(parts, op, new, old) ==
  FanOut(1, MessageRecipients(parts, Coalesce(new, old).conversation_id), op, new, old)

\* a trigger that leaves the conversation as it is
BadTimestampUntouched(convs, new, t) == convs

\* a trigger that keeps the later of the old value and NOW()
BadTimestampKeepLater(convs, new, t) ==
  { IF r.id = new.conversation_id /\ t > r.updated_at THEN [r EXCEPT !.updated_at = t] ELSE r :
      r \in convs }

\* the row trigger update_conversation_on_message_insert
update_conversation_timestamp(convs, new, t) ==
  { IF r.id = new.conversation_id THEN [r EXCEPT !.updated_at = t] ELSE r : r \in convs }

\* ---------------------------------------------------------------- calls
\* a call of delete_conversation_and_notify past its security check: its caller, its
\* next statement, the rows it has deleted and the broadcasts it has written
BeginDelete(uid, c) ==
  [uid |-> uid, pc |-> "participants", conversation_id |-> c, delParts |-> {},
   events |-> <<>>]

NoResult == [fn |-> "none", status |-> "none", message |-> "", data |-> 0]
\* data: the id the call returned, or the number of rows it changed
Ok(fn, n) == [fn |-> fn, status |-> "ok", message |-> "", data |-> n]
Error(fn, msg) == [fn |-> fn, status |-> "error", message |-> msg, data |-> 0]

\* the places a page calls useSubscribeToConversations from: Drawer renders
\* ConversationsList twice, in the temporary drawer (kept mounted) and in the
\* permanent one; each call has a channel of its own
SessionIds == {"s1", "s2"}
\* the call the specifications of the database and of one session follow
FirstSession == {"s1"}
NoTopic == <<"none", "none">>
\* the data of a query of the query client: undefined until the query has data
NoData == [defined |-> FALSE, rows |-> {}]
QueryData(rows) == [defined |-> TRUE, rows |-> rows]
\* the query client of a page: the data under ['conversations', userId], under
\* ['conversations'] and under ['messages', conversationId] of the open conversation
NoCache == [list |-> NoData, bare |-> NoData, msgs |-> NoData]
\* no mutation of useCreateConversation is running
NoCreate ==
  [pc |-> "idle", currentUserId |-> NullUid, otherUserId |-> NullUid,
   existingId |-> NullInt]
\* a call with no channel: joins counts the subscribe() calls made on the channel,
\* listener tells whether its visibilitychange listener is registered
NoSession ==
  [user |-> NullUid, topic |-> NoTopic, state |-> "closed", inbox |-> <<>>,
   handled |-> <<>>, stale |-> {}, joins |-> 0, listener |-> FALSE]
\* a call with no channel in a page whose components are followed too: cache is the
\* page's query client, creating its running mutation of useCreateConversation,
\* sending the contexts of its running mutations of useSendMessage, sent the number
\* of messages it has sent, selected the conversation picked in its list (NullInt
\* when none was picked), and effect the runs of the mark-as-read effect of
\* ChatWindow with the messages it last ran for
PageSession ==
  [user |-> NullUid, topic |-> NoTopic, state |-> "closed", inbox |-> <<>>,
   handled |-> <<>>, stale |-> {}, joins |-> 0, listener |-> FALSE, cache |-> NoCache,
   creating |-> NoCreate, sending |-> {}, sent |-> 0, selected |-> NullInt,
   effect |-> [runs |-> 0, messages |-> NoData]]
\* the call once its channel is gone: the queries already invalidated stay
\* invalidated, and the query client of the page keeps its data
Unmounted(ss) ==
  IF "cache" \in DOMAIN ss
  THEN [PageSession EXCEPT !.stale = ss.stale, !.cache = ss.cache]
  ELSE [NoSession EXCEPT !.stale = ss.stale]

\* no response is waiting to leave the database
Idle == result.fn = "none"

\* the ids handed out so far
RowsCreated == (nextConv - 1) + (nextMsg - 1)

Init ==
  /\ now = 1
  /\ conversations = {}
  /\ participants = {}
  /\ messages = {}
  /\ nextMsg = 1
  /\ nextConv = 1
  /\ realtime = <<>>
  /\ tx = {}
  /\ result = NoResult
  /\ sessions = [s \in SessionIds |-> NoSession]

\* ------------------------------------------------ SQL three-valued logic
\* x = y in a WHERE clause or EXISTS: a row qualifies only when the comparison is true
SqlEqTrue(x, y) == x # NullUid /\ y # NullUid /\ x = y
\* x = ANY(arr): "true", "false" or "null"
SqlEqAny(x, arr) ==
  IF x = NullUid THEN "null"
  ELSE IF \E j \in 1..Len(arr) : arr[j] = x THEN "true" ELSE "false"
SqlNot(v) == CASE v = "true" -> "false" [] v = "false" -> "true" [] OTHER -> "null"
\* IF v THEN: the branch is taken only when v is true
SqlIf(v) == v = "true"
\* array_length(a, 1): NULL for a NULL or an empty array
array_length(a) == IF a.null \/ Len(a.elems) = 0 THEN NullInt ELSE Len(a.elems)

\* ------------------------------------------------ exceptions
\* RAISE EXCEPTION, or a failed statement: the caller gets the error; nothing of the
\* call's transaction is committed
RaiseException(fn, msg) ==
  /\ result' = Error(fn, msg)
  /\ realtime' = <<>>
  /\ UNCHANGED <<now, conversations, participants, messages, nextMsg, nextConv, tx>>

\* ------------------------------------ create_conversation_with_participants
ErrNullOrEmpty == "participant_ids cannot be null or empty"
ErrAtLeastTwo == "At least 2 participants are required"
ErrNotIncluded == "You must be a participant in the conversation you are creating"
ErrForeignKey == "violates foreign key constraint"
ErrUnique == "duplicate key value violates unique constraint"

BadValidateNoMinimum(a) ==
  IF a.null \/ array_length(a) = NullInt THEN ErrNullOrEmpty ELSE ""
\* lines 127-133: the message of the validation error, "" when the input passes
ValidateParticipantIds(a) ==
  IF a.null \/ array_length(a) = NullInt THEN ErrNullOrEmpty
  ELSE IF array_length(a) < 2 THEN ErrAtLeastTwo
  ELSE ""

\* lines 136-138: IF NOT (auth.uid() = ANY(participant_ids)) THEN RAISE
CallerNotIncluded(uid, a) == SqlIf(SqlNot(SqlEqAny(uid, a.elems)))

\* lines 145-149: FOREACH participant_id ... INSERT INTO conversation_participants, each
\* insert firing the row trigger; the loop stops at the first failing insert. The
\* value is the transaction's state when the loop ends: the rows and broadcasts
\* written so far, and the error if an insert failed
RECURSIVE InsertParticipants(_, _, _, _, _, _)
InsertParticipants(i, c, t, ids, parts, events) ==
  IF i > Len(ids) THEN [error |-> "", parts |-> parts, events |-> events]
  ELSE LET u == ids[i]
           row == ParticipantRow(c, u, t)
       IN IF ~ProfileExists(u)
            THEN [error |-> ErrForeignKey, parts |-> parts, events |-> events]
          ELSE IF UniqueViolation(participants \cup parts, c, u)
            THEN [error |-> ErrUnique, parts |-> parts, events |-> events]
          ELSE InsertParticipants(i + 1, c, t, ids, parts \cup {row},
                 events \o broadcast_conversation_participant_changes("INSERT", row, NoRow))

CommitPartial(uid, c, run) ==
  /\ conversations' = conversations \cup {ConversationRow(c, now)}
  /\ participants' = participants \cup run.parts
  /\ realtime' = run.events
  /\ nextConv' = nextConv + 1
  /\ result' = Error("create", run.error)
  /\ UNCHANGED <<now, messages, nextMsg, tx>>
\* an insert of the loop failed: the exception leaves the function and its transaction
\* is rolled back, the conversation row, the participant rows and their broadcasts
AbortCreate(uid, c, run) == RaiseException("create", run.error)

\* the whole call, one transaction. It writes only rows of the conversation it creates,
\* which no other call can see before the commit, so its statements are one step
CreateConversation(uid, a) ==
  /\ Idle
  /\ IF ValidateParticipantIds(a) # ""
       THEN RaiseException("create", ValidateParticipantIds(a))
     ELSE IF CallerNotIncluded(uid, a)
       THEN RaiseException("create", ErrNotIncluded)
     ELSE
       /\ RowsCreated < MaxRows
       /\ LET c == nextConv
              run == InsertParticipants(1, c, now, a.elems, {}, <<>>)
          IN IF run.error # "" THEN AbortCreate(uid, c, run)
             ELSE /\ conversations' = conversations \cup {ConversationRow(c, now)}
                  /\ participants' = participants \cup run.parts
                  /\ realtime' = run.events
                  /\ nextConv' = nextConv + 1
                  /\ result' = Ok("create", c)
                  /\ UNCHANGED <<now, messages, nextMsg, tx>>

\* ------------------------------------------- delete_conversation_and_notify
ErrNotParticipant == "You must be a participant to delete this conversation"

\* the events of deleting the participant rows `rows`, row by row
RECURSIVE DeleteParticipantEvents(_, _)
DeleteParticipantEvents(i, rows) ==
  IF i > Len(UserOrder) THEN <<>>
  ELSE (IF \E p \in rows : p.user_id = UserOrder[i]
          THEN broadcast_conversation_participant_changes(
                 "DELETE", NoRow, CHOOSE p \in rows : p.user_id = UserOrder[i])
          ELSE <<>>)
       \o DeleteParticipantEvents(i + 1, rows)

\* the events of deleting the message rows among `rows`, from id `lo` on
RECURSIVE DeleteMessageEvents(_, _, _)
DeleteMessageEvents(lo, rows, parts) ==
  IF lo >= nextMsg THEN <<>>
  ELSE (IF \E m \in rows : m.id = lo
          THEN broadcast_message_changes(parts, "DELETE", NoRow,
                                         CHOOSE m \in rows : m.id = lo)
          ELSE <<>>)
       \o DeleteMessageEvents(lo + 1, rows, parts)

\* reply_to_id REFERENCES messages(id) ON DELETE SET NULL: the messages that stay
\* and reply to one of the deleted messages `gone`
Orphaned(msgs, gone) ==
  { m \in msgs \ gone : m.reply_to_id # NullInt /\ \E g \in gone : g.id = m.reply_to_id }
SetNullReply(m) == [m EXCEPT !.reply_to_id = NullInt]

\* the events of the UPDATE that sets the replies `rows` to NULL, from id `lo` on
RECURSIVE SetNullEvents(_, _, _)
SetNullEvents(lo, rows, parts) ==
  IF lo >= nextMsg THEN <<>>
  ELSE (IF \E m \in rows : m.id = lo
          THEN LET old == CHOOSE m \in rows : m.id = lo
               IN broadcast_message_changes(parts, "UPDATE", SetNullReply(old), old)
          ELSE <<>>)
       \o SetNullEvents(lo + 1, rows, parts)

BadCallerMayDelete(parts, c, uid) == \E p \in parts : p.conversation_id = c
\* lines 20-27: EXISTS (SELECT 1 ... WHERE conversation_id = c AND user_id = auth.uid())
CallerMayDelete(parts, c, uid) ==
  \E p \in parts : p.conversation_id = c /\ SqlEqTrue(p.user_id, uid)

\* the call arrives: the security check, against the committed rows
DeleteCall(uid, c) ==
  /\ Idle
  /\ IF ~CallerMayDelete(participants, c, uid)
       THEN RaiseException("delete", ErrNotParticipant)
       ELSE /\ Cardinality(tx) < MaxTx
            /\ tx' = tx \cup {BeginDelete(uid, c)}
            /\ UNCHANGED <<now, conversations, participants, messages, nextMsg, nextConv,
                           realtime, result>>

BadRowsToDeleteNone(parts, c, uid) == {}
\* lines 31-32: DELETE FROM conversation_participants WHERE conversation_id = c
RowsToDelete(parts, c, uid) == { p \in parts : p.conversation_id = c }

\* a row deleted by a transaction in flight is locked until that transaction ends; a
\* statement of another call that targets it waits
Locked(p) == \E t \in tx : p \in t.delParts

\* the first DELETE of transaction t: every participant row of the conversation, each
\* firing its trigger
DeleteParticipants(t) ==
  /\ Idle
  /\ t.pc = "participants"
  /\ LET rows == RowsToDelete(participants, t.conversation_id, t.uid)
     IN /\ \A r \in rows : ~Locked(r)
        /\ tx' = (tx \ {t}) \cup
                   {[t EXCEPT !.pc = "conversation", !.delParts = rows,
                              !.events = @ \o DeleteParticipantEvents(1, rows)]}
  /\ UNCHANGED <<now, conversations, participants, messages, nextMsg, nextConv,
                 realtime, result>>

\* the second DELETE of transaction t: the conversation row; ON DELETE CASCADE removes
\* what is left of its participant rows, then its message rows, each firing its row
\* trigger, and ON DELETE SET NULL updates the replies to the removed messages that
\* stay; the function returns and the transaction commits
DeleteConversation(t) ==
  /\ Idle
  /\ t.pc = "conversation"
  /\ LET c == t.conversation_id
         hit == ConversationExists(conversations, c)
         cascParts == IF hit THEN { p \in participants \ t.delParts : p.conversation_id = c }
                      ELSE {}
         left == participants \ (t.delParts \cup cascParts)
         cascMsgs == IF hit THEN { m \in messages : m.conversation_id = c } ELSE {}
         replies == Orphaned(messages, cascMsgs)
     IN /\ \A r \in cascParts : ~Locked(r)
        /\ conversations' = { r \in conversations : r.id # c }
        /\ participants' = left
        /\ messages' = ((messages \ cascMsgs) \ replies)
                          \cup { SetNullReply(m) : m \in replies }
        /\ realtime' = t.events
                                \o DeleteParticipantEvents(1, cascParts)
                                \o SetNullEvents(1, replies, left)
                                \o DeleteMessageEvents(1, cascMsgs, left)
  /\ tx' = tx \ {t}
  /\ result' = Ok("delete", 0)
  /\ UNCHANGED <<now, nextMsg, nextConv>>

\* ---------------------------------------------------- row level security
\* every policy is granted TO authenticated: a caller with no identity (the anonymous
\* key) passes none of them
Authenticated(uid) == uid \in Users
ErrRls == "new row violates row-level security policy"
ErrNoRows == "JSON object requested, multiple (or no) rows returned"

\* an insert policy that does not compare sender_id with the caller
BadMayInsertAnySender(uid, c, sender) ==
  Authenticated(uid) /\ is_conversation_participant(participants, c, uid)

\* POLICY "Users can send messages to own conversations" (WITH CHECK)
MayInsertMessage(uid, c, sender) ==
  Authenticated(uid) /\ is_conversation_participant(participants, c, uid) /\ sender = uid
\* a SELECT policy on messages with USING (true)
BadViewMessageAll(parts, uid, m) == Authenticated(uid)

\* POLICY "Users can view messages in own conversations" (USING), over the
\* participant rows parts
ViewMessage(parts, uid, m) ==
  Authenticated(uid) /\ is_conversation_participant(parts, m.conversation_id, uid)
MaySelectMessage(uid, m) == ViewMessage(participants, uid, m)
\* update and delete policies that do not compare sender_id with the caller
BadMayChangeAnyParticipant(uid, m) == Authenticated(uid) /\ MaySelectMessage(uid, m)

\* POLICIES "Users can update own messages", "Users can delete own messages" (USING);
\* a statement with a WHERE clause also needs the row to pass the SELECT policy
MayChangeMessage(uid, m) ==
  Authenticated(uid) /\ m.sender_id = uid /\ MaySelectMessage(uid, m)
\* POLICY "Users can view participants in own conversations" (USING), over the
\* participant rows parts
ViewParticipant(parts, uid, p) ==
  Authenticated(uid) /\ is_conversation_participant(parts, p.conversation_id, uid)
MaySelectParticipant(uid, p) == ViewParticipant(participants, uid, p)
\* POLICY "Users can view own conversations" (USING)
ViewConversation(parts, uid, r) ==
  Authenticated(uid) /\ is_conversation_participant(parts, r.id, uid)
\* an UPDATE policy that lets every participant of a conversation update its rows
BadMayUpdateAnyParticipant(uid, p) == Authenticated(uid) /\ MaySelectParticipant(uid, p)

\* POLICY "Users can update own participant record" (USING), and the SELECT policy
MayUpdateParticipant(uid, p) ==
  Authenticated(uid) /\ p.user_id = uid /\ MaySelectParticipant(uid, p)
\* no policy permits DELETE on conversation_participants
MayDeleteParticipant(uid, p) == FALSE

\* ------------------------------------------------------ single statements
\* messagesDb.create: INSERT INTO messages, with its two row triggers, in a
\* transaction that began at t: NOW() is the start time of the transaction, the
\* statement sees the rows committed when it runs
MessageInsertAt(uid, c, sender, t) ==
  /\ Idle
  /\ RowsCreated < MaxRows
  /\ IF ~MayInsertMessage(uid, c, sender) THEN
       /\ result' = Error("send", ErrRls)
       /\ realtime' = <<>>
       /\ UNCHANGED <<now, conversations, participants, messages, nextMsg, nextConv, tx>>
     ELSE IF ~ConversationExists(conversations, c) THEN
       /\ result' = Error("send", ErrForeignKey)
       /\ realtime' = <<>>
       /\ UNCHANGED <<now, conversations, participants, messages, nextMsg, nextConv, tx>>
     ELSE
       LET m == MessageRow(nextMsg, c, sender, t)
       IN /\ messages' = messages \cup {m}
          /\ conversations' = update_conversation_timestamp(conversations, m, t)
          /\ realtime' = broadcast_message_changes(participants, "INSERT", m, NoRow)
          /\ nextMsg' = nextMsg + 1
          /\ result' = Ok("send", 1)
          /\ UNCHANGED <<now, participants, nextConv, tx>>

\* the insert in a transaction that begins as the statement runs
MessageInsert(uid, c, sender) == MessageInsertAt(uid, c, sender, now)

\* messagesDb.update (edit) and messagesDb.softDelete: UPDATE messages ... WHERE id = ..
MessageUpdate(uid, id, kind, t) ==
  /\ Idle
  /\ LET rows == { m \in messages : m.id = id /\ MayChangeMessage(uid, m) }
     IN IF rows = {} THEN
          /\ result' = Error(kind, ErrNoRows)
          /\ realtime' = <<>>
          /\ UNCHANGED messages
        ELSE
          LET old == CHOOSE m \in rows : TRUE
              new == IF kind = "edit" THEN [old EXCEPT !.edited = TRUE]
                     ELSE [old EXCEPT !.deleted_at = t]
          IN /\ messages' = (messages \ {old}) \cup {new}
             /\ realtime' = broadcast_message_changes(participants, "UPDATE", new, old)
             /\ result' = Ok(kind, 1)
  /\ UNCHANGED <<now, conversations, participants, nextMsg, nextConv, tx>>

\* messagesDb.hardDelete: DELETE FROM messages WHERE id = ..
MessageDelete(uid, id) ==
  /\ Idle
  /\ LET rows == { m \in messages : m.id = id /\ MayChangeMessage(uid, m) }
         replies == Orphaned(messages, rows)
     IN /\ messages' = ((messages \ rows) \ replies)
                          \cup { SetNullReply(m) : m \in replies }
        /\ realtime' = SetNullEvents(1, replies, participants)
                          \o DeleteMessageEvents(1, rows, participants)
        /\ result' = Ok("hardDelete", Cardinality(rows))
  /\ UNCHANGED <<now, conversations, participants, nextMsg, nextConv, tx>>

\* a read-mark that never moves last_read_at backwards
BadSetLastReadLatest(old, t) ==
  [old EXCEPT !.last_read_at = IF t > @ THEN t ELSE @]

\* SET last_read_at = t
SetLastRead(old, t) == [old EXCEPT !.last_read_at = t]

\* a read-mark whose WHERE clause does not name the conversation
BadMarkedRowsAnyConversation(uid, c, u) ==
  { p \in participants : p.user_id = u /\ MayUpdateParticipant(uid, p) }

\* the rows of .eq('conversation_id', c).eq('user_id', u) that the caller may update
MarkedRows(uid, c, u) ==
  { p \in participants :
      p.conversation_id = c /\ p.user_id = u /\ MayUpdateParticipant(uid, p) }

\* participantsDb.markAsRead: UPDATE conversation_participants SET last_read_at = ..
MarkRead(uid, c, u, t) ==
  /\ Idle
  /\ LET rows == MarkedRows(uid, c, u)
     IN /\ \A r \in rows : ~Locked(r)
        /\ IF rows = {} THEN (realtime' = <<>> /\ UNCHANGED participants)
           ELSE LET old == CHOOSE p \in rows : TRUE
                    new == SetLastRead(old, t)
                IN /\ participants' = (participants \ {old}) \cup {new}
                   /\ realtime' = broadcast_conversation_participant_changes(
                                                 "UPDATE", new, old)
        /\ result' = Ok("markAsRead", Cardinality(rows))
  /\ UNCHANGED <<now, conversations, messages, nextMsg, nextConv, tx>>

\* participantsDb.remove: DELETE FROM conversation_participants WHERE ..
ParticipantRemove(uid, c, u) ==
  /\ Idle
  /\ LET rows == { p \in participants :
                     p.conversation_id = c /\ p.user_id = u /\ MayDeleteParticipant(uid, p) }
     IN /\ \A r \in rows : ~Locked(r)
        /\ participants' = participants \ rows
        /\ realtime' = DeleteParticipantEvents(1, rows)
        /\ result' = Ok("remove", Cardinality(rows))
  /\ UNCHANGED <<now, conversations, messages, nextMsg, nextConv, tx>>

\* ------------------------------------------------------ realtime sessions
\* POLICY "Authenticated users can receive broadcasts" ON realtime.messages: the check
\* made when a session joins a private channel
MayReceiveBroadcast(uid, topic) == Authenticated(uid) /\ TRUE

\* the broadcasts of `ev`, from position i on, that are on `topic`
RECURSIVE OnTopic(_, _, _)
OnTopic(i, ev, topic) ==
  IF i > Len(ev) THEN <<>>
  ELSE (IF ev[i].topic = topic THEN << ev[i] >> ELSE <<>>) \o OnTopic(i + 1, ev, topic)

\* a channel hands its session the broadcasts in the order they were written
Deliver(inbox, ev) == inbox \o ev

\* what a session's channel holds after the broadcasts `ev` are published
Published(ss, ev) ==
  IF ss.state = "joined" THEN [ss EXCEPT !.inbox = Deliver(@, OnTopic(1, ev, ss.topic))]
  ELSE ss

\* the response of the finished call reaches its caller, and its broadcasts the
\* channels joined on their topics
Return ==
  /\ ~Idle
  /\ \A s \in SessionIds : Len(Published(sessions[s], realtime).inbox) <= MaxInbox
  /\ result' = NoResult
  /\ realtime' = <<>>
  /\ sessions' = [s \in SessionIds |-> Published(sessions[s], realtime)]
  /\ UNCHANGED <<now, conversations, participants, messages, nextMsg, nextConv, tx>>

\* supabase.channel(topic, { config: { private: true } }).subscribe() by a session
\* whose access token is that of `uid`
Subscribe(s, uid, topic) ==
  /\ sessions[s].state = "closed"
  /\ sessions' = [sessions EXCEPT ![s] =
       [Unmounted(sessions[s]) EXCEPT !.user = uid, !.topic = topic, !.joins = 1,
                         !.state = IF MayReceiveBroadcast(uid, topic) THEN "joined"
                                   ELSE "errored"]]
  /\ UNCHANGED <<now, conversations, participants, messages, nextMsg, nextConv, realtime,
                 tx, result>>

\* useSubscribeToConversations(userId): the effect subscribes to the user's own topic
Mount(s, userId) ==
  /\ userId # NullUid
  /\ Subscribe(s, userId, Topic(userId))

\* a handler that invalidates the message list of every conversation
BadInvalidatedEveryList(e) ==
  { <<"conversations", 0>> } \cup { <<"messages", r.id>> : r \in conversations }

\* the query keys the broadcast handler invalidates for an event
Invalidated(e) ==
  IF e.table = "conversation_participants" THEN { <<"conversations", 0>> }
  ELSE IF e.table = "messages"
    THEN { <<"conversations", 0>>, <<"messages", EventRow(e).conversation_id>> }
  ELSE {}

BadNextEventLast(inbox) == Len(inbox)
\* the position of the event the channel hands to the handler next
NextEvent(inbox) == 1

\* the broadcast handler runs for the next event of the channel
Handle(s) ==
  /\ sessions[s].state = "joined"
  /\ sessions[s].inbox # <<>>
  /\ LET q == sessions[s].inbox
         k == NextEvent(q)
     IN sessions' = [sessions EXCEPT ![s] =
          [@ EXCEPT !.inbox = SubSeq(q, 1, k - 1) \o SubSeq(q, k + 1, Len(q)),
                    !.handled = Append(@, q[k]),
                    !.stale = @ \cup Invalidated(q[k])]]
  /\ UNCHANGED <<now, conversations, participants, messages, nextMsg, nextConv, realtime,
                 tx, result>>

\* a cleanup that removes the channel and leaves the visibilitychange listener
BadCleanupKeepsListener(ss) ==
  [Unmounted(ss) EXCEPT !.listener = TRUE]

\* what the effect's cleanup leaves of a call of the hook: no listener and no channel;
\* the queries already invalidated stay invalidated in the query client
Cleanup(ss) == Unmounted(ss)

\* the effect's cleanup: removeEventListener and supabase.removeChannel(channel)
Unmount(s) ==
  /\ sessions[s].state # "closed" \/ sessions[s].listener
  /\ sessions' = [sessions EXCEPT ![s] = Cleanup(sessions[s])]
  /\ UNCHANGED <<now, conversations, participants, messages, nextMsg, nextConv, realtime,
                 tx, result>>

\* ---------------------------------------------------------------- behaviours
\* ids a caller may name: those of the rows there are, and one that names no row
KnownConvIds == { r.id : r \in conversations } \cup {nextConv}
KnownMsgIds == { m.id : m \in messages } \cup {nextMsg}

\* the database and its callers within one reading of the clocks
Next ==
  \/ \E uid \in Callers, a \in CreateArgs : CreateConversation(uid, a) /\ UNCHANGED sessions
  \/ \E uid \in Callers, c \in KnownConvIds : DeleteCall(uid, c) /\ UNCHANGED sessions
  \/ \E t \in tx : DeleteParticipants(t) /\ UNCHANGED sessions
  \/ \E t \in tx : DeleteConversation(t) /\ UNCHANGED sessions
  \/ \E uid \in Callers, c \in KnownConvIds, sender \in Users :
       MessageInsert(uid, c, sender) /\ UNCHANGED sessions
  \/ \E uid \in Callers, id \in KnownMsgIds, kind \in {"edit", "softDelete"} :
       MessageUpdate(uid, id, kind, now) /\ UNCHANGED sessions
  \/ \E uid \in Callers, id \in KnownMsgIds : MessageDelete(uid, id) /\ UNCHANGED sessions
  \/ \E uid \in Callers, c \in KnownConvIds, u \in Users :
       MarkRead(uid, c, u, now) /\ UNCHANGED sessions
  \/ \E uid \in Callers, c \in KnownConvIds, u \in Users :
       ParticipantRemove(uid, c, u) /\ UNCHANGED sessions
  \/ Return

Spec == Init /\ [][Next]_vars

\* the conversations the users of the sessions create
SessionCreateArgs == { Arr(<<"u1", "u2">>), Arr(<<"u1", "u2", "u3">>) }

\* a browser session on its channel, while users create conversations and send
\* messages
NextSessions ==
  \/ \E uid \in Users, a \in SessionCreateArgs :
       CreateConversation(uid, a) /\ UNCHANGED sessions
  \/ \E uid \in Users, c \in KnownConvIds : MessageInsert(uid, c, uid) /\ UNCHANGED sessions
  \/ \E uid \in Users, id \in KnownMsgIds : MessageDelete(uid, id) /\ UNCHANGED sessions
  \/ Return
  \/ \E s \in FirstSession, u \in Users : Mount(s, u)
  \/ \E s \in FirstSession, uid \in Callers, u \in Users : Subscribe(s, uid, Topic(u))
  \/ \E s \in FirstSession : Handle(s)
  \/ \E s \in FirstSession : Unmount(s)

\* a database in which u1 and u2 have a conversation, created before the run
InitSessions ==
  /\ now = 1
  /\ conversations = {ConversationRow(0, now)}
  /\ participants = {ParticipantRow(0, "u1", now), ParticipantRow(0, "u2", now)}
  /\ messages = {}
  /\ nextMsg = 1
  /\ nextConv = 1
  /\ realtime = <<>>
  /\ tx = {}
  /\ result = NoResult
  /\ sessions = [s \in SessionIds |-> NoSession]

SpecSessions == InitSessions /\ [][NextSessions]_vars

\* the same database, with the components of each page followed too
InitPages ==
  /\ now = 1
  /\ conversations = {ConversationRow(0, now)}
  /\ participants = {ParticipantRow(0, "u1", now), ParticipantRow(0, "u2", now)}
  /\ messages = {}
  /\ nextMsg = 1
  /\ nextConv = 1
  /\ realtime = <<>>
  /\ tx = {}
  /\ result = NoResult
  /\ sessions = [s \in SessionIds |-> PageSession]

\* ---------------------------------------------------------------- properties
\* the positions of the events of a table in a sequence of broadcasts
EventsOf(ev, table) == { i \in 1..Len(ev) : ev[i].table = table }
\* the positions of the events on a topic
EventsOn(ev, topic) == { i \in 1..Len(ev) : ev[i].topic = topic }

\* C1: a step that inserts a message row into a conversation whose participant set is
\* P broadcasts exactly |P| events: one on user:<u> for each u of P, the sender among
\* them, each an INSERT carrying the new row, and none on another topic
C1_InsertFanOut ==
  [][\A m \in messages' \ messages :
        nextMsg' = nextMsg + 1 =>
          LET P == participantsOf(participants, m.conversation_id)
          IN /\ Len(realtime') = Cardinality(P)
             /\ m.sender_id \in P
             /\ \A u \in P : Cardinality(EventsOn(realtime', Topic(u))) = 1
             /\ \A i \in 1..Len(realtime') :
                  /\ realtime'[i].table = "messages"
                  /\ realtime'[i].event = "INSERT"
                  /\ realtime'[i].record = m
                  /\ \E u \in P : realtime'[i].topic = Topic(u)]_vars

\* a message was sent to a conversation of three and its three broadcasts were written
C1_Witness ==
  /\ result = Ok("send", 1)
  /\ Len(realtime) = 3
  /\ \A u \in Users : Cardinality(EventsOn(realtime, Topic(u))) = 1

\* the participant rows in place when the step's message mutation runs: for the
\* cascade of a conversation's deletion, the rows left when the message rows go
RowsAtMutation == IF result'.fn = "delete" THEN participants' ELSE participants

\* C2: whatever deletions are in flight, no step puts a message event on the topic of
\* a user without a participant row for the message's conversation at that moment
C2_NoEventToNonParticipant ==
  [][\A i \in EventsOf(realtime', "messages") :
        \E p \in RowsAtMutation :
          /\ p.conversation_id = EventRow(realtime'[i]).conversation_id
          /\ realtime'[i].topic = Topic(p.user_id)]_vars

\* a message was changed while a deletion of its conversation had removed the
\* participant rows and not yet committed, with a user outside the conversation
C2_Witness ==
  /\ EventsOf(realtime, "messages") # {}
  /\ \E t \in tx :
       /\ t.delParts # {}
       /\ \A i \in EventsOf(realtime, "messages") :
            EventRow(realtime[i]).conversation_id = t.conversation_id
  /\ \E u \in Users :
       \A i \in EventsOf(realtime, "messages") :
         u \notin participantsOf(participants, EventRow(realtime[i]).conversation_id)

\* the broadcast a participant row's trigger owes: to the row's own user
OwnEvent(op, new, old) ==
  broadcast_changes(Topic(Coalesce(new, old).user_id), op, "conversation_participants",
                    new, old)

\* C4: every insert, update and delete of a participant row that a step commits has
\* exactly one event among the step's broadcasts, on the topic of the row's own
\* user_id (the new row's, the old row's on delete), and the step broadcasts no other
\* participant event
C4_ParticipantEventToOwnUser ==
  [][LET ev == realtime'
         pe == EventsOf(ev, "conversation_participants")
         updated == IF result' = Ok("markAsRead", 1) THEN 1 ELSE 0
         inserted == IF updated = 1 THEN {} ELSE participants' \ participants
         deleted == IF updated = 1 THEN {} ELSE participants \ participants'
     IN /\ \A i \in pe : ev[i].topic = Topic(EventRow(ev[i]).user_id)
        /\ \A p \in inserted :
             Cardinality({ i \in pe : ev[i] = OwnEvent("INSERT", p, NoRow) }) = 1
        /\ \A p \in deleted :
             Cardinality({ i \in pe : ev[i] = OwnEvent("DELETE", NoRow, p) }) = 1
        /\ updated = 1 =>
             \E old \in participants, new \in participants' :
               /\ old.user_id = new.user_id /\ old.conversation_id = new.conversation_id
               /\ ev = << OwnEvent("UPDATE", new, old) >>
        /\ Cardinality(pe) = Cardinality(inserted) + Cardinality(deleted) + updated]_vars

\* a participant of a conversation of several marked it read: one UPDATE event
C4_Witness ==
  /\ result = Ok("markAsRead", 1)
  /\ Len(realtime) = 1
  /\ realtime[1].event = "UPDATE"
  /\ realtime[1].topic # Topic(UserOrder[1])
  /\ Cardinality(participantsOf(participants, realtime[1].record.conversation_id)) > 1

OnePerParticipant(t) ==
  LET c == t.conversation_id
      pe == EventsOf(realtime', "conversation_participants")
      rows == { p \in participants : p.conversation_id = c }
  IN /\ \A p \in rows :
          Cardinality({ i \in pe : realtime'[i] = OwnEvent("DELETE", NoRow, p) }) = 1
     /\ \A i \in pe : \E p \in rows : realtime'[i] = OwnEvent("DELETE", NoRow, p)
     /\ Cardinality(pe) = Cardinality(rows)
\* the caller of transaction t is among the users its commit notifies
CallerNotified(t) ==
  \E i \in EventsOf(realtime', "conversation_participants") :
    /\ realtime'[i].topic = Topic(t.uid)
    /\ realtime'[i].event = "DELETE"
    /\ realtime'[i].old_record.conversation_id = t.conversation_id

CurrentParticipant(uid, c) ==
  \E p \in participants : p.conversation_id = c /\ p.user_id = uid

\* what a step of an arriving deletion call changes: it returns an answer or it adds
\* a transaction to those in flight
DeleteCallStep == result'.fn = "delete" \/ tx' # tx

\* C8: a call of the deletion entrypoint by a caller without a participant row for the
\* conversation (a caller with no identity and a conversation that does not exist
\* included) returns the error, starts no transaction, removes no conversation,
\* participant or message row and broadcasts nothing
C8_DeleteRejectsNonParticipant ==
  [][DeleteCallStep =>
       \A uid \in Callers, c \in KnownConvIds :
         (~CurrentParticipant(uid, c) /\ DeleteCall(uid, c)) =>
           /\ result' = Error("delete", ErrNotParticipant)
           /\ tx' = tx
           /\ UNCHANGED <<conversations, participants, messages>>
           /\ realtime' = <<>>]_vars

\* a deletion was refused while conversations, participants and messages existed
C8_Witness ==
  /\ result = Error("delete", ErrNotParticipant)
  /\ conversations # {} /\ participants # {} /\ messages # {}

\* what a step of a creation call does: it returns the call's answer
CreateStep == result'.fn = "create"

\* C9: a creation call with a null list, an empty list or a single id returns the
\* validation error of its case, writes no conversation or participant row and
\* broadcasts nothing
C9_CreateValidates ==
  [][CreateStep =>
       \A uid \in Callers, a \in CreateArgs :
         ((a.null \/ Len(a.elems) < 2) /\ CreateConversation(uid, a)) =>
           /\ result' = Error("create", IF a.null \/ Len(a.elems) = 0
                                          THEN ErrNullOrEmpty ELSE ErrAtLeastTwo)
           /\ UNCHANGED <<conversations, participants, nextConv>>
           /\ realtime' = <<>>]_vars

\* a creation with a single id was refused
C9_Witness == result = Error("create", ErrAtLeastTwo)

\* some id of the list names no user
HasUnknownUser(a) == \E j \in 1..Len(a.elems) : ~ProfileExists(a.elems[j])

\* C10: a creation call of which a participant insert fails (an id that names no
\* user) returns an error and leaves no conversation row and no participant row, and
\* none of the broadcasts of the inserts before the failure
C10_CreateAllOrNothing ==
  [][CreateStep =>
       \A uid \in Callers, a \in CreateArgs :
         (~a.null /\ HasUnknownUser(a) /\ CreateConversation(uid, a)) =>
           /\ result'.status = "error"
           /\ UNCHANGED <<conversations, participants>>
           /\ realtime' = <<>>]_vars

\* a creation failed at an insert, after the caller's own row had been inserted
C10_Witness == result = Error("create", ErrForeignKey)

\* what a session has received on its channel: handled and waiting
Received(ss) == ss.handled \o ss.inbox

\* C3 as stated: a session authenticated as user X is joined only on user:X and
\* receives only events addressed to user:X
C3_AsStated ==
  \A s \in SessionIds :
    /\ sessions[s].state = "joined" => sessions[s].topic = Topic(sessions[s].user)
    /\ \A i \in 1..Len(Received(sessions[s])) :
         Received(sessions[s])[i].topic = Topic(sessions[s].user)

\* the ids of the messages whose INSERT events are in `ev`, in the order of `ev`
RECURSIVE InsertedIds(_, _)
InsertedIds(i, ev) ==
  IF i > Len(ev) THEN <<>>
  ELSE (IF ev[i].table = "messages" /\ ev[i].event = "INSERT"
          THEN << ev[i].record.id >> ELSE <<>>)
       \o InsertedIds(i + 1, ev)

\* message ids are handed out in the order the inserts commit
Increasing(ids) == \A i, j \in 1..Len(ids) : i < j => ids[i] < ids[j]

CallerListed(uid, a) == \E j \in 1..Len(a.elems) : a.elems[j] = uid

\* C11 as stated: every creation call whose caller is not one of the listed ids, a
\* caller with no identity included, returns an error and creates no row
C11_AsStated ==
  [][CreateStep =>
       \A uid \in Callers, a \in CreateArgs :
         (~CallerListed(uid, a) /\ CreateConversation(uid, a)) =>
           /\ result'.status = "error"
           /\ UNCHANGED <<conversations, participants>>]_vars

\* ---------------------------------------------------------------------- reads

\* SELECT public.is_conversation_participant(c, u): the function is SECURITY
\* DEFINER, it reads the table whoever calls it
CheckMembership(c, u) ==
  /\ Idle
  /\ result' = Ok("is_conversation_participant",
                  is_conversation_participant(participants, c, u))
  /\ realtime' = <<>>
  /\ UNCHANGED <<now, conversations, participants, messages, nextMsg, nextConv, tx>>

\* .maybeSingle(): null for no row, the row for one, an error for several
ErrMultipleRows == "JSON object requested, multiple rows returned"
maybeSingle(fn, rows) ==
  IF Cardinality(rows) > 1 THEN Error(fn, ErrMultipleRows) ELSE Ok(fn, rows)

\* participantsDb.isUserInConversation(conversationId, userId) by caller uid: the
\* SELECT returns the rows the caller's policy lets through
IsUserInConversation(uid, c, u) ==
  LET rows == { p \in participants :
                  /\ p.conversation_id = c
                  /\ p.user_id = u
                  /\ MaySelectParticipant(uid, p) }
      reply == maybeSingle("isUserInConversation", rows)
  IN /\ Idle
     /\ result' = IF reply.status = "error" THEN reply
                  ELSE Ok("isUserInConversation", reply.data # {})
     /\ realtime' = <<>>
     /\ UNCHANGED <<now, conversations, participants, messages, nextMsg, nextConv, tx>>

\* the tables as a reader finds them
Tables(convs, parts, msgs) == [conversations |-> convs, participants |-> parts, messages |-> msgs]
Database == Tables(conversations, participants, messages)

\* .single(): the row when the statement returns one row, an error otherwise
single(fn, rows) == IF Cardinality(rows) = 1 THEN Ok(fn, rows) ELSE Error(fn, ErrNoRows)

\* supabase.from('conversations').select().eq('id', c).single() by caller uid
getConversation(db, uid, c) ==
  single("getConversation",
         { r \in db.conversations : r.id = c /\ ViewConversation(db.participants, uid, r) })

\* participantsDb.getByConversation(c) by caller uid
getByConversation(db, uid, c) ==
  Ok("getByConversation",
     { p \in db.participants :
         p.conversation_id = c /\ ViewParticipant(db.participants, uid, p) })

\* participantsDb.getByUser(u) by caller uid
getByUser(db, uid, u) ==
  Ok("getByUser",
     { p \in db.participants : p.user_id = u /\ ViewParticipant(db.participants, uid, p) })

\* messagesDb.getByConversation(c) by caller uid; soft-deleted messages are left out
getMessages(db, uid, c) ==
  Ok("getMessages",
     { m \in db.messages :
         /\ m.conversation_id = c
         /\ m.deleted_at = NullTs
         /\ ViewMessage(db.participants, uid, m) })

\* the conversation ids of the rows of .eq('user_id', u) that caller uid is shown
ConversationIdsOf(db, uid, u) ==
  { p.conversation_id :
      p \in { q \in db.participants :
                q.user_id = u /\ ViewParticipant(db.participants, uid, q) } }

\* conversationsDb.checkExists(userId1, userId2) by caller uid: the ids it can return.
\* It returns the first common conversation that shows two participant rows, in the
\* order in which the rows of userId2 come back from a SELECT without ORDER BY, and
\* null (NullInt) when there is none
checkExists(db, uid, userId1, userId2) ==
  LET commonConvIds ==
        ConversationIdsOf(db, uid, userId1) \cap ConversationIdsOf(db, uid, userId2)
      hits == { c \in commonConvIds :
                  Cardinality({ p \in db.participants :
                                  /\ p.conversation_id = c
                                  /\ ViewParticipant(db.participants, uid, p) }) = 2 }
  IN IF hits = {} THEN {NullInt} ELSE hits

\* a call of checkExists through the client
CheckExists(uid, userId1, userId2) ==
  /\ Idle
  /\ \E id \in checkExists(Database, uid, userId1, userId2) :
       result' = Ok("checkExists", id)
  /\ realtime' = <<>>
  /\ UNCHANGED <<now, conversations, participants, messages, nextMsg, nextConv, tx>>

\* the reads a caller can issue
Queries ==
  [fn : {"getConversation", "getByConversation", "getMessages"}, arg : KnownConvIds]
    \cup [fn : {"getByUser"}, arg : Users]

\* the answer to query q of caller uid over the tables db
Answer(db, uid, q) ==
  CASE q.fn = "getConversation" -> getConversation(db, uid, q.arg)
    [] q.fn = "getByConversation" -> getByConversation(db, uid, q.arg)
    [] q.fn = "getByUser" -> getByUser(db, uid, q.arg)
    [] q.fn = "getMessages" -> getMessages(db, uid, q.arg)

\* a SELECT through the client: it changes nothing and writes no event
Select(uid, q) ==
  /\ Idle
  /\ result' = Answer(Database, uid, q)
  /\ realtime' = <<>>
  /\ UNCHANGED <<now, conversations, participants, messages, nextMsg, nextConv, tx>>

\* users create conversations and send messages, u1 may delete a conversation,
\* while callers read
NextReads ==
  \/ \E uid \in Users, a \in {Arr(<<"u1", "u2">>), Arr(<<"u2", "u3">>)} :
       CreateConversation(uid, a) /\ UNCHANGED sessions
  \/ \E uid \in Users, c \in KnownConvIds : MessageInsert(uid, c, uid) /\ UNCHANGED sessions
  \/ \E c \in KnownConvIds : DeleteCall("u1", c) /\ UNCHANGED sessions
  \/ \E t \in tx : DeleteParticipants(t) /\ UNCHANGED sessions
  \/ \E t \in tx : DeleteConversation(t) /\ UNCHANGED sessions
  \/ \E c \in KnownConvIds, u \in Callers : CheckMembership(c, u) /\ UNCHANGED sessions
  \/ \E uid \in Callers, c \in KnownConvIds, u \in Users :
       IsUserInConversation(uid, c, u) /\ UNCHANGED sessions
  \/ \E uid \in Callers, q \in Queries : Select(uid, q) /\ UNCHANGED sessions
  \/ \E uid \in Users, userId1 \in Users, userId2 \in Users :
       CheckExists(uid, userId1, userId2) /\ UNCHANGED sessions
  \/ Return

SpecReads == InitSessions /\ [][NextReads]_vars

\* a participant row for (c, u) exists
RowExists(c, u) == \E p \in participants : p.conversation_id = c /\ p.user_id = u

ReadStep == result'.fn \in {"is_conversation_participant", "isUserInConversation"}

MaxTime == 2
MaxLag == 1
MaxSkew == 1

\* the time of the database advances
Tick ==
  /\ Idle
  /\ now < MaxTime
  /\ now' = now + 1
  /\ UNCHANGED <<conversations, participants, messages, nextMsg, nextConv, realtime,
                 tx, result, sessions>>

\* new Date() in a browser: the clock of the caller's machine, which is not the
\* clock of the database
ClientClock == { t \in (now - MaxSkew)..(now + MaxSkew) : t >= 1 }

\* NOW() in a statement: the start of its transaction, which is not later than the
\* time at which the statement runs
TransactionStart == { t \in (now - MaxLag)..now : t >= 1 }

\* participantsDb.updateLastRead: UPDATE .. SET last_read_at = .. RETURNING, .single()
UpdateLastRead(uid, c, u, t) ==
  /\ Idle
  /\ LET rows == { p \in participants :
                     p.conversation_id = c /\ p.user_id = u /\ MayUpdateParticipant(uid, p) }
     IN /\ \A r \in rows : ~Locked(r)
        /\ IF rows = {} THEN
             /\ result' = Error("updateLastRead", ErrNoRows)
             /\ realtime' = <<>>
             /\ UNCHANGED participants
           ELSE LET old == CHOOSE p \in rows : TRUE
                    new == SetLastRead(old, t)
                IN /\ participants' = (participants \ {old}) \cup {new}
                   /\ realtime' = broadcast_conversation_participant_changes(
                                                 "UPDATE", new, old)
                   /\ result' = Ok("updateLastRead", 1)
  /\ UNCHANGED <<now, conversations, messages, nextMsg, nextConv, tx>>

\* users send messages and mark conversations read while time passes; u1 may
\* delete a conversation
NextClock ==
  \/ Tick
  \/ \E uid \in Users, c \in KnownConvIds, t \in TransactionStart :
       MessageInsertAt(uid, c, uid, t) /\ UNCHANGED sessions
  \/ \E uid \in Users, c \in KnownConvIds, t \in ClientClock :
       MarkRead(uid, c, uid, t) /\ UNCHANGED sessions
  \/ \E uid \in Users, c \in KnownConvIds, t \in ClientClock :
       UpdateLastRead(uid, c, uid, t) /\ UNCHANGED sessions
  \/ \E c \in KnownConvIds : DeleteCall("u1", c) /\ UNCHANGED sessions
  \/ \E t \in tx : DeleteParticipants(t) /\ UNCHANGED sessions
  \/ \E t \in tx : DeleteConversation(t) /\ UNCHANGED sessions
  \/ Return

SpecClock == InitSessions /\ [][NextClock]_vars

MarkStep == result'.fn \in {"markAsRead", "updateLastRead"}

\* C13 as stated: a read-mark for a pair with no participant row, through either
\* accessor, succeeds, changes no row and emits no event
C13_AsStated ==
  [][MarkStep =>
       \A uid \in Users, c \in KnownConvIds, t \in ClientClock :
         (~RowExists(c, uid) /\ (MarkRead(uid, c, uid, t) \/ UpdateLastRead(uid, c, uid, t))) =>
           /\ result'.status = "ok"
           /\ UNCHANGED <<conversations, participants, messages>>
           /\ realtime' = <<>>]_vars

\* the participant rows with the row of (c, u) read at t
MarkedAt(parts, c, u, t) ==
  { IF p.conversation_id = c /\ p.user_id = u THEN [p EXCEPT !.last_read_at = t] ELSE p :
      p \in parts }

\* C14: every markAsRead call of a user, one that follows an earlier call included,
\* returns without error and leaves the user's last_read_at equal to the timestamp
\* of that call, whatever value the row held before (last write wins)
C14_LastWriteWins ==
  [][result'.fn = "markAsRead" =>
       \A uid \in Users, c \in KnownConvIds, t \in ClientClock :
         MarkRead(uid, c, uid, t) =>
           /\ result'.status = "ok"
           /\ participants' = MarkedAt(participants, c, uid, t)]_vars

\* a second markAsRead has overwritten the value of an earlier one with an
\* earlier timestamp
C14_Witness ==
  /\ result = Ok("markAsRead", 1)
  /\ \E i \in 1..Len(realtime) :
       /\ realtime[i].event = "UPDATE"
       /\ realtime[i].old_record.last_read_at > 1
       /\ realtime[i].record.last_read_at < realtime[i].old_record.last_read_at

\* Conversation.tsx hasUnread, for conversation c as user u sees it
hasUnread(convs, parts, c, u) ==
  LET currentParticipant == { p \in parts : p.conversation_id = c /\ p.user_id = u }
  IN IF currentParticipant = {} THEN FALSE
     ELSE \E r \in convs, p \in currentParticipant :
            r.id = c /\ r.updated_at > p.last_read_at

SendStep == result' = Ok("send", 1)

\* C15 as stated: right after markAsRead(C, U) the conversation is not unread for
\* U, no step other than a message insert into C or a read-mark of U makes it
\* unread, and after a message insert into C it is unread for every participant
C15_AsStated ==
  [][/\ result'.fn = "markAsRead" =>
          \A uid \in Users, c \in KnownConvIds, t \in ClientClock :
            MarkRead(uid, c, uid, t) => ~hasUnread(conversations', participants', c, uid)
     /\ SendStep =>
          \A p \in participants :
            (\E m \in messages' \ messages : m.conversation_id = p.conversation_id) =>
              hasUnread(conversations', participants', p.conversation_id, p.user_id)
     /\ (result'.fn \notin {"markAsRead", "updateLastRead"} /\ ~SendStep) =>
          \A p \in participants :
            hasUnread(conversations', participants', p.conversation_id, p.user_id) =>
              hasUnread(conversations, participants, p.conversation_id, p.user_id)]_vars

\* the messages a step has inserted
Inserted == messages' \ messages

\* the flag of participant row p before and after a step
UnreadBefore(p) == hasUnread(conversations, participants, p.conversation_id, p.user_id)
UnreadAfter(p) == hasUnread(conversations', participants', p.conversation_id, p.user_id)

\* the step is a read-mark that has rewritten row p
MarkedRead(p) ==
  /\ result'.fn \in {"markAsRead", "updateLastRead"}
  /\ p \notin participants'
  /\ RowExists(p.conversation_id, p.user_id)'

C18_AsStated ==
  [][\A r \in conversations, r2 \in conversations' :
       r2.id = r.id => (r2.updated_at >= r2.created_at /\ r2.updated_at >= r.updated_at)]_vars

\* C19: a message insert by an authenticated caller succeeds only if the caller is
\* a participant of the conversation and sender_id is the caller; every other
\* insert is rejected, adds no message, leaves every updated_at as it was and
\* emits no event
C19_InsertRequiresParticipantSender ==
  [][result'.fn = "send" =>
       \A uid \in Users, c \in KnownConvIds, sender \in Users :
         MessageInsert(uid, c, sender) =>
           /\ result'.status = "ok" => (CurrentParticipant(uid, c) /\ sender = uid)
           /\ ~(CurrentParticipant(uid, c) /\ sender = uid) =>
                /\ result'.status = "error"
                /\ UNCHANGED <<messages, conversations, nextMsg>>
                /\ realtime' = <<>>]_vars

\* an insert has been rejected by the policy while a conversation with its
\* participants exists: there is no message, the activity timestamp is the creation
\* time and no event is written
C19_Witness ==
  /\ result = Error("send", ErrRls)
  /\ participants # {}
  /\ messages = {}
  /\ realtime = <<>>
  /\ \A r \in conversations : r.updated_at = r.created_at

\* the tables without conversation c and what it contains
Without(db, c) ==
  Tables({ r \in db.conversations : r.id # c },
         { p \in db.participants : p.conversation_id # c },
         { m \in db.messages : m.conversation_id # c })

\* two answers a caller cannot tell apart
SameAnswer(a, b) ==
  /\ a.fn = b.fn
  /\ a.status = b.status
  /\ a.message = b.message
  /\ a.status = "ok" => a.data = b.data

SelectStep == result'.fn \in {"getConversation", "getByConversation", "getByUser", "getMessages"}

\* the conversations that exist and that uid is not a participant of
OthersConversations(uid) ==
  { r.id : r \in { x \in conversations : ~CurrentParticipant(uid, x.id) } }

ErrBroadcast == "broadcast_changes failed"

\* messagesDb.create when realtime.broadcast_changes raises for recipient failing:
\* the row trigger has no exception handler, the error leaves the loop and the
\* trigger, and the INSERT statement is aborted with all it has written
MessageInsertEmitFails(uid, c, sender, failing) ==
  /\ Idle
  /\ RowsCreated < MaxRows
  /\ MayInsertMessage(uid, c, sender)
  /\ ConversationExists(conversations, c)
  /\ failing \in MessageRecipients(participants, c)
  /\ RaiseException("send", ErrBroadcast)

\* participantsDb.markAsRead when realtime.broadcast_changes raises in the row
\* trigger of conversation_participants
MarkReadEmitFails(uid, c, u, t) ==
  /\ Idle
  /\ \E p \in participants :
       p.conversation_id = c /\ p.user_id = u /\ MayUpdateParticipant(uid, p) /\ ~Locked(p)
  /\ RaiseException("markAsRead", ErrBroadcast)

\* users send messages and mark conversations read while an emission may fail
NextFaults ==
  \/ \E uid \in Users, a \in SessionCreateArgs :
       CreateConversation(uid, a) /\ UNCHANGED sessions
  \/ \E uid \in Users, c \in KnownConvIds : MessageInsert(uid, c, uid) /\ UNCHANGED sessions
  \/ \E uid \in Users, c \in KnownConvIds, failing \in Users :
       MessageInsertEmitFails(uid, c, uid, failing) /\ UNCHANGED sessions
  \/ \E uid \in Users, c \in KnownConvIds, t \in ClientClock :
       MarkRead(uid, c, uid, t) /\ UNCHANGED sessions
  \/ \E uid \in Users, c \in KnownConvIds, t \in ClientClock :
       MarkReadEmitFails(uid, c, uid, t) /\ UNCHANGED sessions
  \/ Return

SpecFaults == InitSessions /\ [][NextFaults]_vars

\* C21 as stated: when the emission for one affected user fails, the message or
\* the read-mark is committed all the same and the events of the other affected
\* users are emitted
C21_AsStated ==
  [][result'.message = ErrBroadcast =>
       /\ \A uid \in Users, c \in KnownConvIds, failing \in Users :
            MessageInsertEmitFails(uid, c, uid, failing) =>
              /\ \E m \in messages' : m \notin messages /\ m.conversation_id = c
              /\ \A u \in MessageRecipients(participants, c) \ {failing} :
                   \E i \in 1..Len(realtime') : realtime'[i].topic = Topic(u)
       /\ \A uid \in Users, c \in KnownConvIds, t \in ClientClock :
            MarkReadEmitFails(uid, c, uid, t) =>
              participants' = MarkedAt(participants, c, uid, t)]_vars

\* ------------------------------------------------------------------ the hook
\* the effect of useSubscribeToConversations(userId) with a user id: the channel of
\* the user's topic is created and subscribe() is called, the visibilitychange
\* listener is registered
useEffect(s, userId) ==
  /\ userId # NullUid
  /\ sessions[s].state = "closed" /\ ~sessions[s].listener
  /\ sessions' = [sessions EXCEPT ![s] =
       [Unmounted(sessions[s]) EXCEPT !.user = userId, !.topic = Topic(userId),
                                      !.state = "joining", !.joins = 1,
                                      !.listener = TRUE]]
  /\ UNCHANGED <<now, conversations, participants, messages, nextMsg, nextConv, realtime,
                 tx, result>>

\* the server answers a join: SUBSCRIBED, or CHANNEL_ERROR / TIMED_OUT
JoinReply(s, status) ==
  /\ sessions[s].state = "joining"
  /\ status = "joined" => MayReceiveBroadcast(sessions[s].user, sessions[s].topic)
  /\ sessions' = [sessions EXCEPT ![s].state = status]
  /\ UNCHANGED <<now, conversations, participants, messages, nextMsg, nextConv, realtime,
                 tx, result>>

\* the socket of a channel is lost (a backgrounded mobile browser): the channel is
\* closed or errored and what was on its way is lost
ChannelDrop(s, status) ==
  /\ sessions[s].state \in {"joining", "joined"}
  /\ sessions' = [sessions EXCEPT ![s].state = status, ![s].inbox = <<>>]
  /\ UNCHANGED <<now, conversations, participants, messages, nextMsg, nextConv, realtime,
                 tx, result>>

\* a liveness check that subscribes whatever the state of the channel
BadMustResubscribeAlways(channelState) == TRUE

\* a liveness check that resubscribes a closed channel only
BadMustResubscribeClosedOnly(channelState) == channelState = "closed"

\* the condition of the liveness check
MustResubscribe(channelState) == channelState \in {"closed", "errored"}

\* the visibilitychange listener of call s runs with document.visibilityState
handleVisibilityChange(s, visibilityState) ==
  /\ sessions[s].listener
  /\ IF visibilityState = "visible" /\ MustResubscribe(sessions[s].state)
       THEN /\ sessions[s].joins < MaxJoins
            /\ sessions' = [sessions EXCEPT ![s].state = "joining", ![s].joins = @ + 1]
       ELSE UNCHANGED sessions
  /\ UNCHANGED <<now, conversations, participants, messages, nextMsg, nextConv, realtime,
                 tx, result>>

\* the page with its two calls of the hook, while u1 sends messages
NextClient ==
  \/ \E s \in SessionIds, u \in {"u1", "u2"} : useEffect(s, u)
  \/ \E s \in SessionIds, status \in {"joined", "errored"} : JoinReply(s, status)
  \/ \E s \in SessionIds : ChannelDrop(s, "closed")
  \/ \E s \in SessionIds, v \in {"visible", "hidden"} : handleVisibilityChange(s, v)
  \/ \E s \in SessionIds : Handle(s)
  \/ \E s \in SessionIds : Unmount(s)
  \/ \E r \in conversations : MessageInsert("u1", r.id, "u1") /\ UNCHANGED sessions
  \/ Return

SpecClient == InitSessions /\ [][NextClient]_vars

\* the event a step has handed to the handler of call s
JustHandled(s) == sessions'[s].handled[Len(sessions'[s].handled)]

\* the conversation an event of messages names: that of its record, or of its
\* old record when there is no record
NamedConversation(e) ==
  IF e.record # NoRow THEN e.record.conversation_id ELSE e.old_record.conversation_id

\* C22: when the handler takes an event, the views it invalidates are the
\* conversation list alone for an event of conversation_participants, and the
\* conversation list with the message list of the conversation the event names
\* for an event of messages; no other view is invalidated
C22_HandlerInvalidates ==
  [][\A s \in SessionIds :
       Len(sessions'[s].handled) > Len(sessions[s].handled) =>
         sessions'[s].stale \ sessions[s].stale =
           (IF JustHandled(s).table = "conversation_participants"
              THEN { <<"conversations", 0>> }
              ELSE { <<"conversations", 0>>, <<"messages", NamedConversation(JustHandled(s))>> })
             \ sessions[s].stale]_vars

\* a session has handled the DELETE event of a message of conversation 1: the
\* message list of conversation 1 is invalidated, that of conversation 0 is not
C22_Witness ==
  \E s \in SessionIds :
    /\ \E i \in 1..Len(sessions[s].handled) :
         /\ sessions[s].handled[i].table = "messages"
         /\ sessions[s].handled[i].event = "DELETE"
         /\ sessions[s].handled[i].old_record.conversation_id = 1
    /\ <<"messages", 1>> \in sessions[s].stale
    /\ <<"messages", 0>> \notin sessions[s].stale
    /\ <<"conversations", 0>> \in sessions[s].stale

\* the calls of the hook that hold a subscription to the channel of user u
Subscriptions(u) ==
  { s \in SessionIds :
      sessions[s].topic = Topic(u) /\ sessions[s].state \in {"joining", "joined"} }

\* the calls of the hook mounted with user id u
MountedFor(u) == { s \in SessionIds : sessions[s].listener /\ sessions[s].user = u }

\* C23 as stated: the client never holds two subscriptions to the channel of one
\* user, however many components that call the hook are mounted
C23_AsStated == \A u \in Users : Cardinality(Subscriptions(u)) <= 1


\* C24: a mounted call of the hook calls subscribe() again only when its channel is
\* closed or errored; the call is made on the channel it already has. While the
\* channel is joining or joined no further subscribe call is made for it.
C24_ResubscribeOnlyWhenDown ==
  [][\A s \in SessionIds :
       (sessions[s].listener /\ sessions'[s].listener
          /\ sessions'[s].joins # sessions[s].joins)
       => /\ sessions[s].state \in {"closed", "errored"}
          /\ sessions'[s].joins = sessions[s].joins + 1
          /\ sessions'[s].state = "joining"
          /\ sessions'[s].topic = sessions[s].topic
          /\ sessions'[s].user = sessions[s].user]_vars

\* a channel that was subscribed a second time by the liveness check and joined
C24_Witness ==
  \E s \in SessionIds :
    sessions[s].listener /\ sessions[s].joins = 2 /\ sessions[s].state = "joined"

\* a call of the hook that holds no channel
TornDown(ss) == ss.topic = NoTopic

\* C25: the cleanup removes the channel and the visibilitychange listener from
\* whatever state the channel was in, and what was waiting on the channel is dropped;
\* a call that holds no channel handles no event and subscribes nothing until the
\* effect runs again for a user id
C25_CleanupEndsSubscription ==
  [][\A s \in SessionIds :
       /\ (~TornDown(sessions[s]) /\ TornDown(sessions'[s]))
          => /\ ~sessions'[s].listener
             /\ sessions'[s].state = "closed"
             /\ sessions'[s].inbox = <<>>
             /\ sessions'[s].stale = sessions[s].stale
       /\ (TornDown(sessions[s]) /\ sessions'[s] # sessions[s])
          => /\ ~TornDown(sessions'[s])
             /\ sessions'[s].joins = 1
             /\ sessions'[s].handled = <<>>
             /\ sessions'[s].stale = sessions[s].stale]_vars

\* a call of the hook that handled an event was torn down, and a broadcast is
\* published afterwards while it holds no channel
C25_Witness ==
  \E s \in SessionIds :
    /\ TornDown(sessions[s]) /\ ~sessions[s].listener
    /\ sessions[s].stale # {}
    /\ realtime # <<>>


\* ------------------------------------------------------------- read-marks
\* u1 opens a conversation with u3 and sends messages, and u1 and u2 mark the
\* conversation they share read, for themselves and for each other, while time passes
Markers == {"u1", "u2"}
NextMarks ==
  \/ Tick
  \/ CreateConversation("u1", Arr(<<"u1", "u3">>)) /\ UNCHANGED sessions
  \/ \E c \in KnownConvIds : MessageInsert("u1", c, "u1") /\ UNCHANGED sessions
  \/ \E uid \in Markers, u \in Markers, t \in ClientClock :
       MarkRead(uid, 0, u, t) /\ UNCHANGED sessions
  \/ \E uid \in Markers, u \in Markers, t \in ClientClock :
       UpdateLastRead(uid, 0, u, t) /\ UNCHANGED sessions
  \/ Return

SpecMarks == InitSessions /\ [][NextMarks]_vars

\* the key of a participant row
RowKey(p) == <<p.conversation_id, p.user_id>>

\* C26: markAsRead(c, u) leaves every conversation row and every message row as it
\* was, keeps the set of participant rows, leaves every participant row other than
\* (c, u) as it was, and changes no column of (c, u) other than last_read_at
C26_MarkReadFrame ==
  [][result'.fn = "markAsRead" =>
       \A uid \in Markers, c \in KnownConvIds, u \in Markers, t \in ClientClock :
         MarkRead(uid, c, u, t) =>
           /\ conversations' = conversations
           /\ messages' = messages
           /\ { RowKey(p) : p \in participants' } = { RowKey(p) : p \in participants }
           /\ \A p \in participants : RowKey(p) # <<c, u>> => p \in participants'
           /\ \A p \in participants, q \in participants' :
                RowKey(p) = RowKey(q) => [q EXCEPT !.last_read_at = p.last_read_at] = p]_vars

\* u1, in two conversations, has marked conversation 0 read at time 2: the row of u2
\* in conversation 0 and the row of u1 in conversation 1 hold their value, and there
\* is a message
C26_Witness ==
  /\ result = Ok("markAsRead", 1)
  /\ [ParticipantRow(0, "u1", 1) EXCEPT !.last_read_at = 2] \in participants
  /\ ParticipantRow(0, "u2", 1) \in participants
  /\ ParticipantRow(1, "u1", 1) \in participants
  /\ messages # {}

Latest(rows) == { m \in rows : \A n \in rows : n.created_at <= m.created_at }

\* messagesDb.getRecentByConversation(c, 1) by caller uid
getRecentByConversation(db, uid, c) ==
  Ok("getRecentByConversation",
     Latest({ m \in db.messages :
                /\ m.conversation_id = c
                /\ m.deleted_at = NullTs
                /\ ViewMessage(db.participants, uid, m) }))

\* messagesDb.getById(id) by caller uid: .eq('id', id).single(), with no condition
\* on deleted_at
getById(db, uid, id) ==
  single("getById", { m \in db.messages : m.id = id /\ ViewMessage(db.participants, uid, m) })

\* messagesDb.getBySender(u) by caller uid
getBySender(db, uid, u) ==
  Ok("getBySender",
     { m \in db.messages :
         m.sender_id = u /\ m.deleted_at = NullTs /\ ViewMessage(db.participants, uid, m) })

\* the rows messagesDb.getUnreadCount(c, u) counts for caller uid
UnreadRows(db, uid, c, u) ==
  LET participant == { p \in db.participants :
                         /\ p.conversation_id = c /\ p.user_id = u
                         /\ ViewParticipant(db.participants, uid, p) }
  IN IF Cardinality(participant) # 1 THEN {}
     ELSE LET last == CHOOSE p \in participant : TRUE
          IN { m \in db.messages :
                 /\ m.conversation_id = c
                 /\ m.sender_id # u
                 /\ m.deleted_at = NullTs
                 /\ m.created_at > last.last_read_at
                 /\ ViewMessage(db.participants, uid, m) }

\* messagesDb.getUnreadCount(c, u) by caller uid: the rows it counts
getUnreadCount(db, uid, c, u) == Ok("getUnreadCount", UnreadRows(db, uid, c, u))

\* the latest_message of an item of conversationsDb.getForCurrentUser: the embedded
\* messages of the conversation, ordered by created_at descending, limit 1, with no
\* condition on deleted_at
latest_message(db, uid, c) ==
  Latest({ m \in db.messages :
             m.conversation_id = c /\ ViewMessage(db.participants, uid, m) })

\* conversationsDb.getForCurrentUser(userId) by caller uid: the latest messages of
\* the items of the list
getForCurrentUser(db, uid, userId) ==
  Ok("getForCurrentUser",
     UNION { latest_message(db, uid, p.conversation_id) :
               p \in { q \in db.participants :
                         /\ q.user_id = userId
                         /\ ViewParticipant(db.participants, uid, q)
                         /\ \E r \in db.conversations :
                              r.id = q.conversation_id
                                /\ ViewConversation(db.participants, uid, r) } })

\* the reads of messages a caller can issue
MessageQueries ==
  [fn : {"getMessages", "getRecentByConversation", "getUnreadCount", "getForCurrentUser",
         "getBySender"},
   arg : {0}]
    \cup [fn : {"getById"}, arg : { m.id : m \in messages }]

\* the messages that query q of caller uid returns over the tables db
MessageAnswer(db, uid, q) ==
  CASE q.fn = "getMessages" -> getMessages(db, uid, q.arg)
    [] q.fn = "getRecentByConversation" -> getRecentByConversation(db, uid, q.arg)
    [] q.fn = "getUnreadCount" -> getUnreadCount(db, uid, q.arg, uid)
    [] q.fn = "getForCurrentUser" -> getForCurrentUser(db, uid, uid)
    [] q.fn = "getBySender" -> getBySender(db, uid, "u1")
    [] q.fn = "getById" -> getById(db, uid, q.arg)

\* a read of messages through the client
SelectMessages(uid, q) ==
  /\ Idle
  /\ result' = MessageAnswer(Database, uid, q)
  /\ realtime' = <<>>
  /\ UNCHANGED <<now, conversations, participants, messages, nextMsg, nextConv, tx>>

\* u1 and u2 send messages in their conversation; they and u3 edit, soft-delete and
\* delete the messages there are, and read
NextMessages ==
  \/ Tick
  \/ \E uid \in Markers : MessageInsert(uid, 0, uid) /\ UNCHANGED sessions
  \/ \E uid \in Users, m \in messages, kind \in {"edit", "softDelete"} :
       MessageUpdate(uid, m.id, kind, now) /\ UNCHANGED sessions
  \/ \E uid \in Users, m \in messages : MessageDelete(uid, m.id) /\ UNCHANGED sessions
  \/ \E uid \in Users, q \in MessageQueries : SelectMessages(uid, q) /\ UNCHANGED sessions
  \/ Return

SpecMessages == InitSessions /\ [][NextMessages]_vars

MessageReads ==
  {"getMessages", "getRecentByConversation", "getUnreadCount", "getForCurrentUser",
   "getBySender", "getById"}

\* C28 as stated: no read of messages returns a message whose deleted_at is set
C28_AsStated ==
  (result.fn \in MessageReads /\ result.status = "ok")
    => \A m \in result.data : m.deleted_at = NullTs


\* the caller is the sender of message m and a participant of its conversation
SenderAndParticipant(uid, m) ==
  m.sender_id = uid /\ is_conversation_participant(participants, m.conversation_id, uid)

\* C30: an edit, a soft delete or a hard delete of a message by a caller who is not
\* both its sender and a participant of its conversation changes no row and
\* broadcasts nothing; every message such a call changes or removes has a sender
\* who is a participant of its conversation
C30_SenderOnly ==
  [][result'.fn \in {"edit", "softDelete", "hardDelete"} =>
       /\ \A uid \in Users, m \in messages :
            (/\ ~SenderAndParticipant(uid, m)
             /\ \/ MessageUpdate(uid, m.id, "edit", now)
                \/ MessageUpdate(uid, m.id, "softDelete", now)
                \/ MessageDelete(uid, m.id))
            => /\ messages' = messages
               /\ realtime' = <<>>
               /\ UNCHANGED <<conversations, participants>>
       /\ \A m \in messages \ messages' : SenderAndParticipant(m.sender_id, m)]_vars

\* a hard delete of a message there is, by someone who is not its sender, has
\* removed no row and broadcast nothing
C30_Witness ==
  /\ result = Ok("hardDelete", 0)
  /\ messages # {}
  /\ realtime = <<>>


\* C29 as stated: checkExists(u1, u2) returns a conversation id only if the
\* participants of that conversation are exactly u1 and u2, returns null only if no
\* conversation has exactly these participants, and checkExists(u2, u1) returns the
\* same
C29_AsStated ==
  [][result'.fn = "checkExists" =>
       \A userId1 \in Users, userId2 \in Users :
         CheckExists(userId1, userId1, userId2) =>
           /\ result'.data # NullInt =>
                participantsOf(participants, result'.data) = {userId1, userId2}
           /\ result'.data = NullInt =>
                ~\E r \in conversations :
                   participantsOf(participants, r.id) = {userId1, userId2}
           /\ checkExists(Database, userId1, userId2, userId1) = {result'.data}]_vars


\* ------------------------------------------------- updates of participant rows
\* the columns of conversation_participants a client can name in an UPDATE, and the
\* values it can send for them
ParticipantColumns == {"conversation_id", "user_id", "last_read_at", "joined_at"}
ColumnValues(col) ==
  CASE col = "conversation_id" -> KnownConvIds
    [] col = "user_id" -> Users
    [] OTHER -> {now, now + 1}

\* a policy check of new rows that leaves out the SELECT policy
BadMayStoreOwnRow(uid, new) == Authenticated(uid) /\ new.user_id = uid

\* what the new row of an UPDATE must pass: WITH CHECK (user_id = auth.uid()) and,
\* as the statement has a WHERE clause, the SELECT policy, which
\* is_conversation_participant answers from the rows there are before the statement
MayStoreParticipant(uid, new) ==
  Authenticated(uid) /\ new.user_id = uid /\ MaySelectParticipant(uid, new)

\* supabase.from('conversation_participants').update({ col: v })
\*   .eq('conversation_id', c).eq('user_id', u) by caller uid
ParticipantUpdate(uid, c, u, col, v) ==
  /\ Idle
  /\ LET rows == MarkedRows(uid, c, u)
     IN /\ \A r \in rows : ~Locked(r)
        /\ IF rows = {} THEN
             /\ result' = Ok("updateParticipant", 0)
             /\ realtime' = <<>>
             /\ UNCHANGED participants
           ELSE
             LET old == CHOOSE p \in rows : TRUE
                 new == [old EXCEPT ![col] = v]
                 reject(msg) == /\ result' = Error("updateParticipant", msg)
                                /\ realtime' = <<>>
                                /\ UNCHANGED participants
             IN IF ~MayStoreParticipant(uid, new) THEN reject(ErrRls)
                ELSE IF UniqueViolation(participants \ {old}, new.conversation_id,
                                        new.user_id)
                  THEN reject(ErrUnique)
                ELSE IF ~ConversationExists(conversations, new.conversation_id)
                          \/ ~ProfileExists(new.user_id)
                  THEN reject(ErrForeignKey)
                ELSE /\ participants' = (participants \ {old}) \cup {new}
                     /\ realtime' = broadcast_conversation_participant_changes(
                                      "UPDATE", new, old)
                     /\ result' = Ok("updateParticipant", 1)
  /\ UNCHANGED <<now, conversations, messages, nextMsg, nextConv, tx>>

\* u1 opens conversations with u3, also with lists that name a user twice, while
\* u1 and u2 update the columns of the participant rows there are, their own and
\* those of others
UpdateCreateArgs == { Arr(<<"u1", "u3">>), Arr(<<"u1", "u1">>), Arr(<<"u1", "u3", "u1">>) }
NextUpdates ==
  \/ \E a \in UpdateCreateArgs : CreateConversation("u1", a) /\ UNCHANGED sessions
  \/ \E uid \in Markers, p \in participants, col \in ParticipantColumns :
       \E v \in ColumnValues(col) :
         ParticipantUpdate(uid, p.conversation_id, p.user_id, col, v) /\ UNCHANGED sessions
  \/ Return

SpecUpdates == InitSessions /\ [][NextUpdates]_vars

UpdateStep == result'.fn = "updateParticipant"

UniqueRows == Cardinality({ RowKey(p) : p \in participants }) = Cardinality(participants)

\* a list of participant ids that names a user twice
Repeats(a) ==
  /\ ~a.null
  /\ \E i \in 1..Len(a.elems), j \in 1..Len(a.elems) : i < j /\ a.elems[i] = a.elems[j]

\* C32: there is never more than one participant row per conversation and user; a
\* conversation that create_conversation_with_participants returns has at least two
\* distinct participants; a call whose list names a user twice fails and writes no
\* row and no event
C32_UniqueRowsAndPairs ==
  /\ []UniqueRows
  /\ [][result'.fn = "create" =>
          /\ result'.status = "ok" =>
               Cardinality(participantsOf(participants', result'.data)) >= 2
          /\ \A uid \in Users, a \in UpdateCreateArgs :
               (Repeats(a) /\ CreateConversation(uid, a)) =>
                 /\ result'.status = "error"
                 /\ UNCHANGED <<conversations, participants, messages, nextConv>>
                 /\ realtime' = <<>>]_vars

\* a creation whose list repeats a user has failed on the unique constraint, beside
\* a conversation created before it
C32_Witness ==
  /\ result = Error("create", ErrUnique)
  /\ Cardinality(conversations) = 1
  /\ \A r \in conversations : Cardinality(participantsOf(participants, r.id)) >= 2
  /\ realtime = <<>>


\* ------------------------------------------------------------------ replies
\* reply_to_id UUID REFERENCES messages(id): the referenced row exists, whoever may
\* see it
ReplyTargetExists(msgs, id) == id = NullInt \/ \E m \in msgs : m.id = id

\* messagesDb.create({ conversation_id, sender_id, content, reply_to_id }): the INSERT
\* of a message with a reply reference, with its two row triggers
MessageReply(uid, c, sender, reply_to_id) ==
  /\ Idle
  /\ nextMsg <= MaxRows
  /\ IF ~MayInsertMessage(uid, c, sender) THEN
       /\ result' = Error("send", ErrRls)
       /\ realtime' = <<>>
       /\ UNCHANGED <<now, conversations, participants, messages, nextMsg, nextConv, tx>>
     ELSE IF ~ConversationExists(conversations, c)
               \/ ~ReplyTargetExists(messages, reply_to_id) THEN
       /\ result' = Error("send", ErrForeignKey)
       /\ realtime' = <<>>
       /\ UNCHANGED <<now, conversations, participants, messages, nextMsg, nextConv, tx>>
     ELSE
       LET m == [MessageRow(nextMsg, c, sender, now) EXCEPT !.reply_to_id = reply_to_id]
       IN /\ messages' = messages \cup {m}
          /\ conversations' = update_conversation_timestamp(conversations, m, now)
          /\ realtime' = broadcast_message_changes(participants, "INSERT", m, NoRow)
          /\ nextMsg' = nextMsg + 1
          /\ result' = Ok("send", 1)
          /\ UNCHANGED <<now, participants, nextConv, tx>>

\* u1 opens a conversation with u3; the users send messages, with and without a
\* reply reference, and soft-delete them
NextReplies ==
  \/ CreateConversation("u1", Arr(<<"u1", "u3">>)) /\ UNCHANGED sessions
  \/ \E uid \in Users, c \in KnownConvIds, r \in KnownMsgIds \cup {NullInt} :
       MessageReply(uid, c, uid, r) /\ UNCHANGED sessions
  \/ \E uid \in Users, m \in messages :
       MessageUpdate(uid, m.id, "softDelete", now) /\ UNCHANGED sessions
  \/ Return

SpecReplies == InitSessions /\ [][NextReplies]_vars

\* C33 as stated: every stored message with a reply reference refers to a message
\* of its own conversation
C33_AsStated ==
  \A m \in messages :
    m.reply_to_id # NullInt =>
      \E p \in messages : p.id = m.reply_to_id /\ p.conversation_id = m.conversation_id


\* ------------------------------------------------------------ reconnection
\* the calls of the hook of a page: the effect runs with and without a user id,
\* joins are answered or time out, sockets are lost, the page is hidden and shown
NextReconnect ==
  \/ \E s \in SessionIds, u \in {"u1", "u2", NullUid} : useEffect(s, u)
  \/ \E s \in SessionIds, status \in {"joined", "errored"} : JoinReply(s, status)
  \/ \E s \in SessionIds, status \in {"closed", "errored"} : ChannelDrop(s, status)
  \/ \E s \in SessionIds, v \in {"visible", "hidden"} : handleVisibilityChange(s, v)
  \/ \E s \in SessionIds : Unmount(s)

\* the page becomes visible again and again, and the transport acknowledges a join
\* that is tried again and again
SpecReconnect ==
  /\ InitSessions
  /\ [][NextReconnect]_vars
  /\ \A s \in SessionIds : WF_vars(handleVisibilityChange(s, "visible"))
  /\ \A s \in SessionIds : SF_vars(JoinReply(s, "joined"))

\* the steps of a channel's state
ChannelEdges ==
  { <<"closed", "joining">>, <<"joining", "joined">>, <<"joining", "errored">>,
    <<"joining", "closed">>, <<"joined", "closed">>, <<"joined", "errored">>,
    <<"errored", "joining">>, <<"errored", "closed">> }

\* the channel of call s is down and the liveness check may still subscribe
Down(s) ==
  /\ sessions[s].listener
  /\ sessions[s].state \in {"closed", "errored"}

\* C34: a call of the hook has a channel only for a user id; the state of its
\* channel moves along closed -> joining -> joined -> closed/errored -> joining
\* (a join that fails or times out goes from joining to errored, the cleanup to
\* closed); and a channel that is closed or errored during a session, with the page
\* becoming visible and the transport acknowledging, is joined again, unless the
\* call is unmounted first
C34_Reconnects ==
  /\ [](\A s \in SessionIds :
          (sessions[s].topic # NoTopic \/ sessions[s].listener)
            => sessions[s].user # NullUid /\ sessions[s].topic = Topic(sessions[s].user))
  /\ [][\A s \in SessionIds :
          /\ sessions'[s].state # sessions[s].state
               => <<sessions[s].state, sessions'[s].state>> \in ChannelEdges
          /\ (sessions[s].state = "errored" /\ sessions'[s].state = "closed")
               => ~sessions'[s].listener]_vars
  /\ \A s \in SessionIds :
       (Down(s) /\ sessions[s].joins < MaxJoins)
         ~> \/ sessions[s].state = "joined"
            \/ ~sessions[s].listener
            \/ Down(s) /\ sessions[s].joins = MaxJoins

\* a channel that was errored or closed has been subscribed again by the liveness
\* check and is joined, while the other call of the hook is down
C34_Witness ==
  /\ sessions["s1"].listener /\ sessions["s1"].joins = 2 /\ sessions["s1"].state = "joined"
  /\ Down("s2")


\* ------------------------------------------------------------ the query client
\* the conversation the page has open in ChatWindow
OpenConversation == 0

\* the items of conversationsDb.getForCurrentUser(userId) for caller uid: the
\* conversations of the rows of .eq('user_id', userId), with their updated_at and the
\* last_read_at of that user's participant
ConversationList(db, uid, userId) ==
  UNION { { [id |-> r.id, updated_at |-> r.updated_at, last_read_at |-> q.last_read_at] :
              r \in { x \in db.conversations :
                        x.id = q.conversation_id
                          /\ ViewConversation(db.participants, uid, x) } } :
          q \in { p \in db.participants :
                    p.user_id = userId /\ ViewParticipant(db.participants, uid, p) } }

\* the ids of the rows of messagesDb.getByConversation(c) for caller uid
MessageList(db, uid, c) == { m.id : m \in getMessages(db, uid, c).data }

\* the queries with an observer: useConversations(profile.id) in ConversationsList
\* and useMessages(conversationId) in ChatWindow
ActiveQueries == { <<"conversations", 0>>, <<"messages", OpenConversation>> }

\* the queries the query client fetches again when the page is focused: the
\* on-focus re-fetch of the queries that are shown
RefetchedOnFocus == ActiveQueries

\* an active query runs its queryFn when it has no data or has been invalidated
MustFetch(ss, key, data) == ~data.defined \/ key \in ss.stale

\* the queryFns of the active queries of call s run against the database and their
\* results are written to the query client
Refetch(s) ==
  /\ sessions[s].listener
  /\ LET ss == sessions[s]
         u == ss.user
         list == IF MustFetch(ss, <<"conversations", 0>>, ss.cache.list)
                   THEN QueryData(ConversationList(Database, u, u)) ELSE ss.cache.list
         msgs == IF MustFetch(ss, <<"messages", OpenConversation>>, ss.cache.msgs)
                   THEN QueryData(MessageList(Database, u, OpenConversation))
                   ELSE ss.cache.msgs
     IN /\ \/ MustFetch(ss, <<"conversations", 0>>, ss.cache.list)
           \/ MustFetch(ss, <<"messages", OpenConversation>>, ss.cache.msgs)
        /\ sessions' = [sessions EXCEPT ![s] =
             [ss EXCEPT !.cache = [@ EXCEPT !.list = list, !.msgs = msgs],
                        !.stale = @ \ ActiveQueries]]
  /\ UNCHANGED <<now, conversations, participants, messages, nextMsg, nextConv, realtime,
                 tx, result>>

\* the document's visibilitychange event: the listener of the hook runs, and the
\* query client, when the page has become visible, marks what it refetches on focus
visibilitychange(s, visibilityState) ==
  /\ sessions[s].listener
  /\ LET ss == sessions[s]
         resubscribe == visibilityState = "visible" /\ MustResubscribe(ss.state)
     IN /\ resubscribe => ss.joins < MaxJoins
        /\ sessions' = [sessions EXCEPT ![s] =
             [ss EXCEPT !.state = IF resubscribe THEN "joining" ELSE @,
                        !.joins = IF resubscribe THEN @ + 1 ELSE @,
                        !.stale = IF visibilityState = "visible"
                                    THEN @ \cup RefetchedOnFocus ELSE @]]
  /\ UNCHANGED <<now, conversations, participants, messages, nextMsg, nextConv, realtime,
                 tx, result>>

\* the page of u1 with its channel and its queries, while u2 sends messages and
\* opens a second conversation with u1
NextRefetch ==
  \/ \E s \in FirstSession : useEffect(s, "u1")
  \/ \E s \in FirstSession, status \in {"joined", "errored"} : JoinReply(s, status)
  \/ \E s \in FirstSession : ChannelDrop(s, "closed")
  \/ \E s \in FirstSession, v \in {"visible", "hidden"} : visibilitychange(s, v)
  \/ \E s \in FirstSession : Handle(s)
  \/ \E s \in FirstSession : Refetch(s)
  \/ MessageInsert("u2", OpenConversation, "u2") /\ UNCHANGED sessions
  \/ CreateConversation("u2", Arr(<<"u2", "u1">>)) /\ UNCHANGED sessions
  \/ Return

\* responses and broadcasts arrive, handlers and queryFns run, and a join that is
\* tried again and again is acknowledged
SpecRefetch ==
  /\ InitPages
  /\ [][NextRefetch]_vars
  /\ WF_vars(Return)
  /\ \A s \in FirstSession : WF_vars(Handle(s)) /\ WF_vars(Refetch(s))
  /\ \A s \in FirstSession : SF_vars(JoinReply(s, "joined"))

\* the lists of call s are those of the store
Fresh(s) ==
  LET u == sessions[s].user
  IN /\ sessions[s].cache.list = QueryData(ConversationList(Database, u, u))
     /\ sessions[s].cache.msgs = QueryData(MessageList(Database, u, OpenConversation))

\* the channel of call s went down, was subscribed again and is joined
Reconnected(s) ==
  sessions[s].listener /\ sessions[s].state = "joined" /\ sessions[s].joins > 1

\* C35: after a session has reconnected, lists that differ from the store are
\* eventually refreshed to match it (or the channel goes down again)
C35_AsStated ==
  \A s \in FirstSession :
    (Reconnected(s) /\ ~Fresh(s)) ~> (Fresh(s) \/ sessions[s].state # "joined")


\* ------------------------------------------------------ useCreateConversation
\* mutationFn of useCreateConversation, first half: the page of call s awaits
\* conversationsDb.checkExists(currentUserId, otherUserId) and keeps the answer
CheckBeforeCreate(s, currentUserId, otherUserId) ==
  /\ sessions[s].creating.pc = "idle"
  /\ CheckExists(currentUserId, currentUserId, otherUserId)
  /\ sessions' = [sessions EXCEPT ![s].creating =
       [pc |-> "checked", currentUserId |-> currentUserId, otherUserId |-> otherUserId,
        existingId |-> result'.data]]

\* if (existingId): the conversation found is returned and nothing is created
Reuses(existingId) == existingId # NullInt

\* mutationFn of useCreateConversation, second half: the conversation found is
\* returned, or conversationsDb.create([currentUserId, otherUserId]) is called
CreateOrReuse(s) ==
  LET m == sessions[s].creating
  IN /\ m.pc = "checked"
     /\ IF Reuses(m.existingId)
          THEN /\ Idle
               /\ UNCHANGED <<now, conversations, participants, messages, nextMsg,
                              nextConv, realtime, tx, result>>
          ELSE CreateConversation(m.currentUserId,
                                  Arr(<<m.currentUserId, m.otherUserId>>))
     /\ sessions' = [sessions EXCEPT ![s].creating = NoCreate]

\* the users who start chats, and those they start them with
Starters == {"u1", "u3"}

\* two pages, of the same user or of two users, start 1:1 chats
NextCreate ==
  \/ \E s \in SessionIds, currentUserId \in Starters, otherUserId \in Users :
       currentUserId # otherUserId /\ CheckBeforeCreate(s, currentUserId, otherUserId)
  \/ \E s \in SessionIds : CreateOrReuse(s)
  \/ Return

SpecCreate == InitPages /\ [][NextCreate]_vars

\* the conversations whose participants are exactly the two users
PairConversations(userId1, userId2) ==
  { r.id : r \in { x \in conversations :
                     participantsOf(participants, x.id) = {userId1, userId2} } }

\* C36: whatever the interleaving of the create-conversation requests, two users
\* have at most one conversation whose participants are exactly the two of them
C36_AsStated ==
  \A userId1 \in Users : \A userId2 \in Users \ {userId1} :
    Cardinality(PairConversations(userId1, userId2)) <= 1


\* ------------------------------------------------------------ useSendMessage
\* the id of the temporary message of the k-th send of a page, `temp-${Date.now()}`
\* for sends made at different milliseconds: none is the id of a stored message
Temp(k) == 0 - (k + 1)

\* the messages a page shows for the open conversation, temporary ones included
Shown(ss) == ss.cache.msgs.rows

\* onMutate of useSendMessage on the page of call s: the list under
\* ['messages', conversation_id] is snapshotted, and the temporary message is
\* appended to it, or to an empty list when the query has no data
onMutate(s) ==
  /\ sessions[s].listener
  /\ sessions[s].sent < MaxSends
  /\ LET ss == sessions[s]
         temp == Temp(ss.sent + 1)
         previousMessages == ss.cache.msgs
         old == IF previousMessages.defined THEN previousMessages.rows ELSE {}
     IN sessions' = [sessions EXCEPT ![s] =
          [ss EXCEPT !.cache = [@ EXCEPT !.msgs = QueryData(old \cup {temp})],
                     !.sending = @ \cup {[temp |-> temp,
                                          previousMessages |-> previousMessages]},
                     !.sent = @ + 1]]
  /\ UNCHANGED <<now, conversations, participants, messages, nextMsg, nextConv, realtime,
                 tx, result>>

\* onError of useSendMessage with the context of onMutate: the snapshot is written
\* back if (context?.previousMessages), that is when the query had data
onError(ss, context) ==
  IF context.previousMessages.defined
    THEN [ss EXCEPT !.cache = [@ EXCEPT !.msgs = context.previousMessages],
                    !.sending = @ \ {context}]
    ELSE [ss EXCEPT !.sending = @ \ {context}]

\* onSuccess of useSendMessage: the message list of the conversation and the
\* conversation list are invalidated
onSuccess(ss, context) ==
  [ss EXCEPT !.stale = @ \cup {<<"messages", OpenConversation>>, <<"conversations", 0>>},
             !.sending = @ \ {context}]

\* mutationFn of a running send of the page of call s, messagesDb.create with the
\* page's access token (uid is NULL when the token has expired), and the callback
\* that follows its answer
mutationFn(s, context, uid) ==
  /\ context \in sessions[s].sending
  /\ MessageInsert(uid, OpenConversation, sessions[s].user)
  /\ sessions' = [sessions EXCEPT ![s] =
       IF result'.status = "error" THEN onError(sessions[s], context)
       ELSE onSuccess(sessions[s], context)]

\* the page of u1 with the conversation open: its queries are fetched, u1 sends
\* messages, and the access token is valid or has expired when a send is made;
\* u2 sends messages too
NextSend ==
  \/ \E s \in FirstSession : useEffect(s, "u1")
  \/ MessageInsert("u2", OpenConversation, "u2") /\ UNCHANGED sessions
  \/ \E s \in FirstSession : Refetch(s)
  \/ \E s \in FirstSession : onMutate(s)
  \/ \E s \in FirstSession : \E context \in sessions[s].sending, uid \in {"u1", NullUid} :
       mutationFn(s, context, uid)
  \/ Return

SpecSend == InitPages /\ [][NextSend]_vars

\* C37: when a send fails, the cached message list of the conversation holds no
\* temporary message of the failed send and still holds every other message it held
C37_AsStated ==
  [][\A s \in FirstSession : \A context \in sessions[s].sending :
       (context \notin sessions'[s].sending /\ result'.status = "error")
         => /\ context.temp \notin Shown(sessions'[s])
            /\ (Shown(sessions[s]) \ {context.temp}) \subseteq Shown(sessions'[s])]_vars


\* ------------------------------------------------------------ ConversationsList
\* the unread indicator of an item of the list: Conversation.tsx hasUnread over the
\* cached item
ShowsUnread(item) == item.updated_at > item.last_read_at

\* the updater of handleConversationSelect over the data of a query: undefined stays
\* undefined, otherwise the current user's last_read_at of the conversation is set
SelectUpdater(old, conversationId, t) ==
  IF ~old.defined THEN old
  ELSE QueryData({ IF conv.id = conversationId THEN [conv EXCEPT !.last_read_at = t]
                   ELSE conv : conv \in old.rows })

\* queryClient.setQueryData(['conversations'], updater) of handleConversationSelect:
\* the data under the key ['conversations'] is updated
SelectedCache(cache, conversationId, t) ==
  [cache EXCEPT !.bare = SelectUpdater(@, conversationId, t)]

\* handleConversationSelect(conversationId) on the page of call s, whose clock
\* reads t: the parent is told the selection, and the cache is updated if (profile?.id)
handleConversationSelect(s, conversationId, t) ==
  /\ sessions[s].listener
  /\ sessions' = [sessions EXCEPT ![s] =
       [@ EXCEPT !.selected = conversationId,
                 !.cache = IF sessions[s].user # NullUid
                             THEN SelectedCache(@, conversationId, t) ELSE @]]
  /\ UNCHANGED <<now, conversations, participants, messages, nextMsg, nextConv, realtime,
                 tx, result>>

\* the items the list of call s is rendered from: the data of useConversations
Rendered(ss) == ss.cache.list.rows

\* the page of u1: its channel is joined and its queries are fetched, time passes,
\* u2 sends messages, and u1 picks conversations of the list
NextSelect ==
  \/ \E s \in FirstSession : useEffect(s, "u1")
  \/ \E s \in FirstSession, status \in {"joined"} : JoinReply(s, status)
  \/ \E s \in FirstSession : Handle(s)
  \/ \E s \in FirstSession : Refetch(s)
  \/ \E s \in FirstSession : \E conv \in Rendered(sessions[s]) :
       handleConversationSelect(s, conv.id, now)
  \/ Tick
  \/ MessageInsert("u2", OpenConversation, "u2") /\ UNCHANGED sessions
  \/ Return

SpecSelect == InitPages /\ [][NextSelect]_vars

\* call s picks a conversation of its list
Selects(s) ==
  /\ sessions'[s].selected # sessions[s].selected
  /\ UNCHANGED <<conversations, participants, messages, result>>

\* C38: when a conversation of the list is picked, the item of that conversation in
\* the data the list is rendered from has the current user's last_read_at set to the
\* time of the pick at once, so that its unread indicator is off
C38_AsStated ==
  [][\A s \in FirstSession :
       Selects(s) =>
         \A conv \in Rendered(sessions'[s]) :
           conv.id = sessions'[s].selected
             => conv.last_read_at = now /\ ~ShowsUnread(conv)]_vars


\* ------------------------------------------------------------ ChatWindow
\* an effect with no dependency array: it runs after every render
BadMustMarkReadAlways(ss) == TRUE

\* the dependencies [conversationId, profile?.id, messages] of the mark-as-read
\* effect: it runs when the page is mounted and when the data of useMessages changes
MustMarkRead(ss) == ss.effect.runs = 0 \/ ss.effect.messages # ss.cache.msgs

\* the mark-as-read effect of ChatWindow on the page of call s:
\* participantsDb.markAsRead(conversationId, profile.id)
markReadEffect(s) ==
  /\ sessions[s].listener
  /\ sessions[s].user # NullUid
  /\ MustMarkRead(sessions[s])
  /\ sessions[s].effect.runs < MaxMarks
  /\ MarkRead(sessions[s].user, OpenConversation, sessions[s].user, now)
  /\ sessions' = [sessions EXCEPT ![s].effect =
       [runs |-> @.runs + 1, messages |-> sessions[s].cache.msgs]]

\* a page of user u that is mounted and at rest: its channel is joined, its queries
\* are loaded, and its mark-as-read effect has run when the page was mounted and
\* when the message list was loaded (before the channel was joined)
Loaded(u) ==
  [PageSession EXCEPT !.user = u, !.topic = Topic(u), !.state = "joined", !.joins = 1,
                    !.listener = TRUE,
                    !.cache = [NoCache EXCEPT
                                 !.list = QueryData(ConversationList(Database, u, u)),
                                 !.msgs = QueryData(MessageList(Database, u,
                                                                OpenConversation))],
                    !.effect = [runs |-> 2, messages |-> QueryData({})]]

\* a quiescent system: the conversation of u1 and u2 is open on two pages, both of
\* u1 or one of each user
InitChain ==
  /\ now = 1
  /\ conversations = {ConversationRow(0, now)}
  /\ participants = {ParticipantRow(0, "u1", now), ParticipantRow(0, "u2", now)}
  /\ messages = {}
  /\ nextMsg = 1
  /\ nextConv = 1
  /\ realtime = <<>>
  /\ tx = {}
  /\ result = NoResult
  /\ \E u \in {"u1", "u2"} : sessions = [s \in SessionIds |->
                                          IF s \in FirstSession THEN Loaded("u1")
                                          ELSE Loaded(u)]

\* the two pages react while u2 sends messages from elsewhere
NextChain ==
  \/ \E s \in SessionIds : Handle(s)
  \/ \E s \in SessionIds : Refetch(s)
  \/ \E s \in SessionIds : markReadEffect(s)
  \/ MessageInsert("u2", OpenConversation, "u2") /\ UNCHANGED sessions
  \/ Return

\* responses and broadcasts arrive, and handlers, queryFns and effects run
SpecChain ==
  /\ InitChain
  /\ [][NextChain]_vars
  /\ WF_vars(Return)
  /\ \A s \in SessionIds :
       WF_vars(Handle(s)) /\ WF_vars(Refetch(s)) /\ WF_vars(markReadEffect(s))

\* nothing is left to do: no response or broadcast is on its way, no query of a
\* mounted page is to be fetched and no effect is to run
Quiescent ==
  /\ Idle
  /\ \A s \in SessionIds :
       /\ sessions[s].inbox = <<>>
       /\ sessions[s].listener =>
            /\ ~MustFetch(sessions[s], <<"conversations", 0>>, sessions[s].cache.list)
            /\ ~MustFetch(sessions[s], <<"messages", OpenConversation>>,
                          sessions[s].cache.msgs)
            /\ ~MustMarkRead(sessions[s])

\* the messages sent so far
SentSoFar == nextMsg - 1

\* call s handles an event of table conversation_participants in this step
HandlesParticipantEvent(s) ==
  /\ Len(sessions'[s].handled) = Len(sessions[s].handled) + 1
  /\ sessions'[s].handled[Len(sessions'[s].handled)].table = "conversation_participants"

\* C39: the reactions to message inserts end. A page marks the conversation read
\* when it is mounted, when its message list is first loaded and at most once per
\* message inserted; a participants event invalidates the conversation list only and
\* leaves the mark-as-read effect as it was; and the system becomes quiescent and
\* stays so, also with two pages of the same user
C39_ChainEnds ==
  /\ [](\A s \in SessionIds : sessions[s].effect.runs <= 2 + SentSoFar)
  /\ [][\A s \in SessionIds :
          HandlesParticipantEvent(s) =>
            /\ sessions'[s].stale \ sessions[s].stale \subseteq {<<"conversations", 0>>}
            /\ MustMarkRead(sessions'[s]) = MustMarkRead(sessions[s])]_vars
  /\ <>[]Quiescent

\* a message was sent, both pages of u1 have marked the conversation read for it, and
\* nothing is left to do
C39_Witness ==
  /\ SentSoFar = 1
  /\ \A s \in SessionIds :
       /\ sessions[s].user = "u1" /\ sessions[s].state = "joined"
       /\ sessions[s].effect.runs = 3
       /\ sessions[s].cache.msgs = QueryData({1})
       /\ \E i \in 1..Len(sessions[s].handled) :
            sessions[s].handled[i].table = "conversation_participants"
  /\ Quiescent


\* ------------------------------------------------------- deletion and messages
\* u1 opens a conversation with u3, the users send messages and replies in the
\* conversations there are, and conversations are deleted through
\* delete_conversation_and_notify while messages are still being sent
NextDelete ==
  \/ CreateConversation("u1", Arr(<<"u1", "u3">>)) /\ UNCHANGED sessions
  \/ \E uid \in Users, r \in conversations :
       MessageInsert(uid, r.id, uid) /\ UNCHANGED sessions
  \/ \E uid \in Users, r \in conversations, m \in messages :
       MessageReply(uid, r.id, uid, m.id) /\ UNCHANGED sessions
  \/ \E uid \in Users, r \in conversations : DeleteCall(uid, r.id) /\ UNCHANGED sessions
  \/ \E t \in tx : DeleteParticipants(t) /\ UNCHANGED sessions
  \/ \E t \in tx : DeleteConversation(t) /\ UNCHANGED sessions
  \/ Return

SpecDelete == InitSessions /\ [][NextDelete]_vars

\* a call of delete_conversation_and_notify commits in this step
DeleteCommits == result'.fn = "delete" /\ result'.status = "ok"

\* C40: the broadcasts of a deletion through the entrypoint are DELETE events of
\* conversation_participants only; the messages removed by the cascade produce no
\* event on any topic
C40_AsStated ==
  [][DeleteCommits =>
       \A i \in 1..Len(realtime') :
         /\ realtime'[i].table = "conversation_participants"
         /\ realtime'[i].event = "DELETE"]_vars
====
